---- MODULE Spec2Model ----
(***************************************************************************)
(* Model of the UDP-over-stream tunnel connection (udpTunConn) of the      *)
(* relay package: keepalive start guard, Close, the serialized frame       *)
(* writer and the frame reader.                                            *)
(*                                                                         *)
(* The stream carries bytes (0..255).  A net.Addr is represented by the    *)
(* only thing the code asks of it, its String(): a sequence of one-letter  *)
(* strings such as <<"1",":","1">>.                                        *)
(***************************************************************************)
EXTENDS Integers, Sequences, FiniteSets, TLC

(* ------------------------------ bounds --------------------------------- *)

\* application goroutines that call into one connection
NThreads == 2
\* API calls (StartKeepalive, Close, WriteTo, Write) issued in one run
MaxCalls == 3
\* keepalive ticks that fire in one run
MaxTicks == 1
\* keepalive ticks that fire in a run where the keepalive write can fail
MaxLateTicks == 2
\* longest payload handed to WriteTo
MaxLen == 2
\* OnPacket calls made on the realistic reporter in one run
MaxPackets == 3
\* how far below and above 65536 the long payloads' lengths go
LenSpan == 50
\* largest read buffer handed to ReadFrom
MaxBuf == 2
\* ReadFrom calls in one run
MaxReads == 2
\* frames a remote peer puts on the stream in the frame-decoding runs
MaxFrames == 2
\* resolve calls issued in one run
MaxResolves == 3
\* resolve calls issued in a run where evictions race with stores
MaxStaleResolves == 4
\* layered Resolve calls made in one run
MaxLayered == 1
\* session store calls made in one run
MaxStoreCalls == 3
\* registry calls made in one run
MaxStatCalls == 3
\* registry calls made in a run that meters one connection
MaxMeterCalls == 4
\* latest reading of the clock, in minutes
MaxNow == 6
\* sockets the lookups of one run open
MaxSocks == 2

(* ------------------------- program constants --------------------------- *)

\* dgram.Header.Frag = 0xff
TunFrag == 255
\* gosocks5.AddrIPv4, the ATYP octet of an IPv4 address header
AddrIPv4 == 1
\* width of the RSV field that carries the payload length: uint16(len(dgram.Data))
RsvMod == 65536
\* time.Now().Add(5 * time.Minute): the cache's time to live, in minutes
TTL == 5

Threads == 1..NThreads

(* ------------------------------ text ----------------------------------- *)

Digits == <<"0", "1", "2", "3", "4", "5", "6", "7", "8", "9">>

IsDigit(c) == \E i \in 1..10 : Digits[i] = c

DigitVal(c) == (CHOOSE i \in 1..10 : Digits[i] = c) - 1

\* strconv.Itoa
RECURSIVE Itoa(_)
Itoa(n) == IF n < 10 THEN <<Digits[n + 1]>>
           ELSE Itoa(n \div 10) \o <<Digits[(n % 10) + 1]>>

\* strconv.Atoi on an unsigned decimal; -1 stands for the error
RECURSIVE AtoiAcc(_, _)
AtoiAcc(s, acc) == IF s = <<>> THEN acc
                   ELSE IF ~IsDigit(Head(s)) THEN -1
                   ELSE AtoiAcc(Tail(s), acc * 10 + DigitVal(Head(s)))

Atoi(s) == IF s = <<>> THEN -1 ELSE AtoiAcc(s, 0)

\* index of the last occurrence of c in s, 0 when there is none
RECURSIVE LastIndex(_, _)
LastIndex(s, c) == IF s = <<>> THEN 0
                   ELSE IF s[Len(s)] = c THEN Len(s)
                   ELSE LastIndex(SubSeq(s, 1, Len(s) - 1), c)

\* index of the first occurrence of c in s, 0 when there is none
RECURSIVE FirstIndexFrom(_, _, _)
FirstIndexFrom(s, c, i) == IF i > Len(s) THEN 0
                           ELSE IF s[i] = c THEN i
                           ELSE FirstIndexFrom(s, c, i + 1)

\* strings.Split(s, c)
RECURSIVE Split(_, _)
Split(s, c) == LET i == FirstIndexFrom(s, c, 1)
               IN  IF i = 0 THEN <<s>>
                   ELSE <<SubSeq(s, 1, i - 1)>> \o Split(SubSeq(s, i + 1, Len(s)), c)

\* net.SplitHostPort for host:port without brackets
SplitHostPort(s) ==
    LET i == LastIndex(s, ":")
    IN  IF i = 0 THEN [ok |-> FALSE, host |-> <<>>, port |-> <<>>]
        ELSE IF FirstIndexFrom(s, ":", 1) # i THEN [ok |-> FALSE, host |-> <<>>, port |-> <<>>]
        ELSE [ok |-> TRUE, host |-> SubSeq(s, 1, i - 1), port |-> SubSeq(s, i + 1, Len(s))]

\* net.ParseIP for dotted-quad IPv4: the four octets, or <<>> for nil
ParseIP(s) ==
    LET parts == Split(s, ".")
    IN  IF Len(parts) # 4 THEN <<>>
        ELSE IF \E i \in 1..4 :
                   \/ Atoi(parts[i]) < 0
                   \/ Atoi(parts[i]) > 255
                   \/ (Len(parts[i]) > 1 /\ parts[i][1] = "0")
             THEN <<>>
        ELSE [i \in 1..4 |-> Atoi(parts[i])]

\* net.IP.String for an IPv4 address
IPString(ip) == Itoa(ip[1]) \o <<".">> \o Itoa(ip[2]) \o <<".">>
                \o Itoa(ip[3]) \o <<".">> \o Itoa(ip[4])

\* net.JoinHostPort
JoinHostPort(host, port) == host \o <<":">> \o port

(* ---------------------------- addresses -------------------------------- *)

\* "127.0.0.1:1", the placeholder the keepalive loop writes to
KaAddr == <<"1", "2", "7", ".", "0", ".", "0", ".", "1", ":", "1">>

\* "10.0.0.2:513", an application destination (port needs both octets)
AppAddr == <<"1", "0", ".", "0", ".", "0", ".", "2", ":", "5", "1", "3">>

\* "x", an address string with no port in it
BadAddr == <<"x">>

\* destinations the application passes to WriteTo
Addrs == {AppAddr, BadAddr}

\* payload octets
Octets == {7}

\* payloads of length 0..MaxLen
Payloads == UNION {[1..n -> Octets] : n \in 0..MaxLen}

\* gosocks5.Addr.ParseFrom(addr.String())
ParseFrom(s) ==
    LET hp == SplitHostPort(s)
        p  == Atoi(hp.port)
        ip == ParseIP(hp.host)
    IN  IF ~hp.ok \/ p < 0 \/ p >= RsvMod \/ ip = <<>>
        THEN [ok |-> FALSE, type |-> 0, host |-> <<>>, port |-> 0]
        ELSE [ok |-> TRUE, type |-> AddrIPv4, host |-> ip, port |-> p]

\* every address string a write can be handed
AllAddrs == Addrs \cup {KaAddr}

\* ParseFrom of each address string, tabulated
Parsed == [s \in AllAddrs |-> ParseFrom(s)]

\* gosocks5.Addr.Encode: ATYP, the four address octets, the port big-endian
EncodeAddr(sa) == <<sa.type>> \o sa.host \o <<sa.port \div 256, sa.port % 256>>

\* gosocks5.UDPHeader.WriteTo: RSV big-endian, FRAG, then the address
EncodeHeader(rsv, frag, sa) == <<rsv \div 256, rsv % 256, frag>> \o EncodeAddr(sa)

\* octets of an IPv4 UDP header: RSV(2) FRAG(1) ATYP(1) ADDR(4) PORT(2)
HeaderLen == 2 + 1 + 1 + 4 + 2

\* the frame writeToLocked builds for payload b and parsed address sa
FrameHeader(b, sa) == EncodeHeader(Len(b) % RsvMod, TunFrag, sa)

(* ------------------------------ state ---------------------------------- *)

VARIABLES
    taddr,          \* udpTunConn.taddr: the fixed target, <<>> when nil
    kaOnce,         \* udpTunConn.kaOnce: "fresh", "running" or "done"
    kaStop,         \* udpTunConn.kaStop: "nil", "open" or "closed"
    mu,             \* udpTunConn.mu: 0 when free, else the goroutine holding it
    connClosed,     \* the underlying net.Conn has been closed
    wire,           \* octets written to the underlying stream so far
    loops,          \* keepalive goroutines started by StartKeepalive
    pc,             \* where each application goroutine stands
    arg,            \* the running call's arguments and locals, per goroutine
    panicked,       \* a goroutine panicked: the process is gone
    rpos,           \* octets of the stream the reading end has consumed
    rcv,            \* what each ReadFrom call on the reading end returned
    hist,           \* history, read by the properties only
    dgram,          \* the datagram writeToLocked built: payload length, RSV, octets after the header
    metersMap,      \* realisticStatsReporter.meters: connID -> *connectionMeter (index into meterObjs)
    metersMu,       \* realisticStatsReporter.metersMu: writer, and set of readers
    meterObjs,      \* every connectionMeter allocated so far
    mpc,            \* where each goroutine stands in realisticStatsReporter.OnPacket
    mcall,          \* per goroutine: the arguments and locals of its OnPacket call
    mhist,          \* OnPacket calls made and returned, and the bytes they carried
    ipCache,        \* package dtls, ipCache: host -> cachedIP{ip, expiresAt}
    now,            \* what time.Now() returns, in minutes
    rpc,            \* where each goroutine stands in resolve
    rcall,          \* per goroutine: its resolve call, running or last returned
    socks,          \* sockets opened by the lookups, with their SO_MARK
    rhist,          \* history of the resolve calls, read by the properties only
    lres,           \* the layered Resolve calls made so far: arguments and results
    sessionStore,   \* package dtls, sessionStore.m: the (key, session) pairs held
    scall,          \* per goroutine: its session store call in progress
    slog,           \* the session store calls in the order they took effect
    statsReporters, \* package tungo, statsReporters: guid -> reporter
    statsReportersMu, \* statsReportersMu: the writer holding it and its readers
    stpc,           \* where each goroutine stands in a registry call
    stcall,         \* per goroutine: its registry call in progress
    reporters,      \* what each reporter object has recorded
    stlog           \* registry calls and lookups in the order they took effect

\* the state of package dtls's resolve
resVars == <<ipCache, now, rpc, rcall, socks, rhist>>

\* the state of the session store
sessVars == <<sessionStore, scall, slog>>

\* the state of the stats reporter registry and of the reporters
statVars == <<statsReporters, statsReportersMu, stpc, stcall, reporters, stlog>>

\* the state of one realisticStatsReporter whose callbacks run step by step
meterVars == <<metersMap, metersMu, meterObjs, mpc, mcall, mhist>>

\* the state of one udpTunConn
tunVars == <<taddr, kaOnce, kaStop, mu, connClosed, wire, loops, pc, arg, panicked,
             rpos, rcv, hist, dgram>>

vars == <<taddr, kaOnce, kaStop, mu, connClosed, wire, loops, pc, arg, panicked,
          rpos, rcv, hist, dgram, ipCache, now, rpc, rcall, socks, rhist, lres,
          sessionStore, scall, slog, statsReporters, statsReportersMu, stpc, stcall,
          reporters, stlog, metersMap, metersMu, meterObjs, mpc, mcall, mhist>>

\* intervals passed to StartKeepalive: 0 disables, the others enable
Intervals == {-1, 0, 1, 2}

NoArg == [op |-> "none"]

\* no datagram was built yet
NoDatagram == [len |-> -1, rsv |-> 0, following |-> 0]

\* goroutine id of the i-th keepalive loop, as holder of mu
LoopId(i) == NThreads + i

\* hist.calls         API calls issued so far
\* hist.ticks         keepalive ticks fired so far
\* hist.returned      ids of the writes that have returned
\* hist.kaMade        stop channels created
\* hist.kaCloseCount  close(c.kaStop) executions that went through
\* hist.closeOverlap  two Close calls have been in progress at once
\* hist.closeRets     what each udpTunConn.Close call returned, in order
\* hist.connRets      what each Conn.Close call returned, in order
\* hist.skReturned    StartKeepalive calls with a positive interval that returned
\* hist.skAsked       the positive intervals StartKeepalive was called with
\* hist.onceInterval  the interval of the call that ran the Once body, 0 before
\* hist.log           one entry per write, in the order the lock was taken
HistInit == [calls |-> 0, ticks |-> 0, returned |-> {}, kaMade |-> 0,
             kaCloseCount |-> 0, closeOverlap |-> FALSE, closeRets |-> <<>>,
             connRets |-> <<>>, skReturned |-> 0, skAsked |-> {},
             onceInterval |-> 0, log |-> <<>>]

(* ------------------------- resolve (package dtls) ---------------------- *)

\* "h:53" and "h:7": a host name with two different ports
HostAddr == <<"h", ":", "5", "3">>

HostAddr7 == <<"h", ":", "7">>

\* "10.0.0.2", a literal IP address without a port
IPNoPort == <<"1", "0", ".", "0", ".", "0", ".", "2">>

\* addresses handed to resolve: host names with a port, a literal IP with and
\* without a port, and a string that is neither
ResolveAddrs == {HostAddr, HostAddr7, AppAddr, IPNoPort, BadAddr}

\* the mark argument of resolve: unset, set, and a negative value
Marks == {-1, 0, 2}

\* addresses a lookup can answer with
LookupIPs == {<<1, 1, 1, 1>>, <<2, 2, 2, 2>>}

\* what resolver.LookupIP returns: an error, or a list of addresses that may
\* be empty
LookupResults ==
    {[err |-> "lookup", ips |-> <<>>]}
        \cup {[err |-> "nil", ips |-> l] :
                 l \in {<<>>, <<<<1, 1, 1, 1>>>>, <<<<2, 2, 2, 2>>, <<1, 1, 1, 1>>>>}}

\* the sync.Map with no key
EmptyCache == [k \in {} |-> 0]

\* ipCache.Store(host, e)
CacheStored(host, e) ==
    [k \in DOMAIN ipCache \cup {host} |-> IF k = host THEN e ELSE ipCache[k]]

\* ipCache.Delete(host)
CacheDeleted(host) == [k \in DOMAIN ipCache \ {host} |-> ipCache[k]]

\* the zero cachedIP
NoEntry == [ip |-> <<>>, expiresAt |-> 0]

\* no resolve call yet
NoCall == [op |-> "none"]

\* the session store is empty and no goroutine is calling it
StoreInit ==
    /\ sessionStore = {}
    /\ scall = [t \in Threads |-> NoCall]
    /\ slog = <<>>

\* a reporter argument that is nil
NilReporter == "nil"

\* two mockStatsReporter objects and one realisticStatsReporter
MockReporters == {"M1", "M2"}

RealisticReporter == "R"

ReporterIds == MockReporters \cup {RealisticReporter}

\* a map with no key
EmptyMap == [k \in {} |-> 0]

\* a reporter that has recorded nothing: the mock's three lists, the realistic
\* reporter's meters and its two counters
NewReporter == [packets |-> <<>>, connectionsStart |-> <<>>, connectionsEnd |-> <<>>,
                meters |-> EmptyMap, startsCount |-> 0, endsCount |-> 0]

\* package tungo at program start: an empty registry, a free lock, reporters
\* that have recorded nothing
StatsInit ==
    /\ statsReporters = EmptyMap
    /\ statsReportersMu = [w |-> 0, r |-> {}]
    /\ stpc = [t \in Threads |-> "idle"]
    /\ stcall = [t \in Threads |-> NoCall]
    /\ reporters = [r \in ReporterIds |-> NewReporter]
    /\ stlog = <<>>

\* newRealisticStatsReporter(): no meter, a free lock, no callback running
\* mhist.calls     OnPacket calls made so far
\* mhist.returned  OnPacket calls that have returned
\* mhist.slow      calls that went on to the write lock
\* mhist.rx, tx    bytes of the calls that have returned, per direction
MeterInit ==
    /\ metersMap = EmptyMap
    /\ metersMu = [w |-> 0, r |-> {}]
    /\ meterObjs = <<>>
    /\ mpc = [t \in Threads |-> "idle"]
    /\ mcall = [t \in Threads |-> NoCall]
    /\ mhist = [calls |-> 0, returned |-> 0, slow |-> 0, rx |-> 0, tx |-> 0]

\* package dtls at program start: an empty cache and no call in progress
\* rhist.calls      resolve calls issued so far
\* rhist.lastStore  host -> the entry last stored for it and when, kept when
\*                  the cache drops the entry
ResInit ==
    /\ ipCache = EmptyCache
    /\ now = 0
    /\ rpc = [t \in Threads |-> "idle"]
    /\ rcall = [t \in Threads |-> NoCall]
    /\ socks = <<>>
    /\ rhist = [calls |-> 0, lastStore |-> EmptyCache]
    /\ lres = <<>>

\* UDPTunClientConn (fixed target) or UDPTunClientPacketConn / UDPTunServerConn
Init ==
    /\ ResInit
    /\ StoreInit
    /\ StatsInit
    /\ MeterInit
    /\ taddr \in {<<>>, AppAddr}
    /\ kaOnce = "fresh"
    /\ kaStop = "nil"
    /\ mu = 0
    /\ connClosed = FALSE
    /\ wire = <<>>
    /\ loops = <<>>
    /\ pc = [t \in Threads |-> "idle"]
    /\ arg = [t \in Threads |-> NoArg]
    /\ panicked = FALSE
    /\ rpos = 0
    /\ rcv = <<>>
    /\ dgram = NoDatagram
    /\ hist = HistInit

(* --------------------------- StartKeepalive ---------------------------- *)

\* StartKeepalive without the interval test: every call goes on to the Once
StartKeepalive_NoIntervalTest(t, iv) ==
    /\ ~panicked
    /\ pc[t] = "idle"
    /\ hist.calls < MaxCalls
    /\ hist' = [hist EXCEPT !.calls = @ + 1,
                            !.skAsked = IF iv <= 0 THEN @ ELSE @ \cup {iv}]
    /\ pc' = [pc EXCEPT ![t] = "sk_once"]
    /\ arg' = [arg EXCEPT ![t] = [op |-> "StartKeepalive", interval |-> iv,
                                  afterClose |-> hist.closeRets # <<>>]]
    /\ UNCHANGED <<dgram, meterVars, statVars, sessVars, lres, resVars, taddr, kaOnce, kaStop, mu, connClosed, wire, loops, panicked, rpos, rcv>>

\* StartKeepalive(interval): the call and its interval test
StartKeepalive(t, iv) ==
    /\ ~panicked
    /\ pc[t] = "idle"
    /\ hist.calls < MaxCalls
    /\ hist' = [hist EXCEPT !.calls = @ + 1,
                            !.skAsked = IF iv <= 0 THEN @ ELSE @ \cup {iv}]
    /\ IF iv <= 0
       THEN UNCHANGED <<pc, arg>>
       ELSE /\ pc' = [pc EXCEPT ![t] = "sk_once"]
            /\ arg' = [arg EXCEPT ![t] = [op |-> "StartKeepalive", interval |-> iv,
                                          afterClose |-> hist.closeRets # <<>>]]
    /\ UNCHANGED <<dgram, meterVars, statVars, sessVars, lres, resVars, taddr, kaOnce, kaStop, mu, connClosed, wire, loops, panicked, rpos, rcv>>

\* OnceDo without the one-shot guard: every caller runs the body
OnceDo_NoGuard(t) ==
    /\ ~panicked
    /\ pc[t] = "sk_once"
    /\ kaOnce' = "running"
    /\ pc' = [pc EXCEPT ![t] = "sk_make"]
    /\ hist' = [hist EXCEPT !.onceInterval = arg[t].interval]
    /\ UNCHANGED <<dgram, meterVars, statVars, sessVars, lres, resVars, taddr, kaStop, mu, connClosed, wire, loops, arg, panicked, rpos, rcv>>

\* c.kaOnce.Do: the first caller runs the body, a caller that finds the body
\* running waits for it, a caller that finds it done returns
OnceDo(t) ==
    /\ ~panicked
    /\ pc[t] = "sk_once"
    /\ kaOnce # "running"
    /\ IF kaOnce = "fresh"
       THEN /\ kaOnce' = "running"
            /\ pc' = [pc EXCEPT ![t] = "sk_make"]
            /\ hist' = [hist EXCEPT !.onceInterval = arg[t].interval]
            /\ UNCHANGED arg
       ELSE /\ pc' = [pc EXCEPT ![t] = "idle"]
            /\ arg' = [arg EXCEPT ![t] = NoArg]
            /\ hist' = [hist EXCEPT !.skReturned = @ + 1]
            /\ UNCHANGED kaOnce
    /\ UNCHANGED <<dgram, meterVars, statVars, sessVars, lres, resVars, taddr, kaStop, mu, connClosed, wire, loops, panicked, rpos, rcv>>

\* c.kaStop = make(chan struct{})
MakeStop(t) ==
    /\ ~panicked
    /\ pc[t] = "sk_make"
    /\ kaStop' = "open"
    /\ hist' = [hist EXCEPT !.kaMade = @ + 1]
    /\ pc' = [pc EXCEPT ![t] = "sk_go"]
    /\ UNCHANGED <<dgram, meterVars, statVars, sessVars, lres, resVars, taddr, kaOnce, mu, connClosed, wire, loops, arg, panicked, rpos, rcv>>

\* go func() {...}(), after which the Once is done and the call returns
GoLoop(t) ==
    /\ ~panicked
    /\ pc[t] = "sk_go"
    /\ loops' = Append(loops, [pc |-> "select", interval |-> arg[t].interval,
                               afterClose |-> arg[t].afterClose, li |-> 0])
    /\ kaOnce' = "done"
    /\ pc' = [pc EXCEPT ![t] = "idle"]
    /\ arg' = [arg EXCEPT ![t] = NoArg]
    /\ hist' = [hist EXCEPT !.skReturned = @ + 1]
    /\ UNCHANGED <<dgram, meterVars, statVars, sessVars, lres, resVars, taddr, kaStop, mu, connClosed, wire, panicked, rpos, rcv>>

(* -------------------------------- Close -------------------------------- *)

InClose(t) == pc[t] \in {"cl_nil", "cl_select", "cl_close", "cl_conn"}

\* Close(): the call
Close(t) ==
    /\ ~panicked
    /\ pc[t] = "idle"
    /\ hist.calls < MaxCalls
    /\ pc' = [pc EXCEPT ![t] = "cl_nil"]
    /\ arg' = [arg EXCEPT ![t] = [op |-> "Close"]]
    /\ hist' = [hist EXCEPT !.calls = @ + 1,
                            !.closeOverlap = @ \/ \E u \in Threads \ {t} : InClose(u)]
    /\ UNCHANGED <<dgram, meterVars, statVars, sessVars, lres, resVars, taddr, kaOnce, kaStop, mu, connClosed, wire, loops, panicked, rpos, rcv>>

\* CloseNilTest of a Close that first waits for the write lock to be free
CloseNilTest_WaitsForLock(t) ==
    /\ ~panicked
    /\ pc[t] = "cl_nil"
    /\ mu = 0
    /\ pc' = [pc EXCEPT ![t] = IF kaStop # "nil" THEN "cl_select" ELSE "cl_conn"]
    /\ UNCHANGED <<dgram, meterVars, statVars, sessVars, lres, resVars, taddr, kaOnce, kaStop, mu, connClosed, wire, loops, arg, panicked,
                   rpos, rcv, hist>>

\* if c.kaStop != nil
CloseNilTest(t) ==
    /\ ~panicked
    /\ pc[t] = "cl_nil"
    /\ pc' = [pc EXCEPT ![t] = IF kaStop # "nil" THEN "cl_select" ELSE "cl_conn"]
    /\ UNCHANGED <<dgram, meterVars, statVars, sessVars, lres, resVars, taddr, kaOnce, kaStop, mu, connClosed, wire, loops, arg, panicked,
                   rpos, rcv, hist>>

\* CloseSelect without the receive case: the channel is closed whenever it is not nil
CloseSelect_NoReceive(t) ==
    /\ ~panicked
    /\ pc[t] = "cl_select"
    /\ pc' = [pc EXCEPT ![t] = "cl_close"]
    /\ UNCHANGED <<dgram, meterVars, statVars, sessVars, lres, resVars, taddr, kaOnce, kaStop, mu, connClosed, wire, loops, arg, panicked,
                   rpos, rcv, hist>>

\* select { case <-c.kaStop: default: ... }
CloseSelect(t) ==
    /\ ~panicked
    /\ pc[t] = "cl_select"
    /\ pc' = [pc EXCEPT ![t] = IF kaStop = "closed" THEN "cl_conn" ELSE "cl_close"]
    /\ UNCHANGED <<dgram, meterVars, statVars, sessVars, lres, resVars, taddr, kaOnce, kaStop, mu, connClosed, wire, loops, arg, panicked,
                   rpos, rcv, hist>>

\* close(c.kaStop): closing a closed channel panics
CloseStop(t) ==
    /\ ~panicked
    /\ pc[t] = "cl_close"
    /\ IF kaStop = "closed"
       THEN /\ panicked' = TRUE
            /\ UNCHANGED <<kaStop, pc, hist>>
       ELSE /\ kaStop' = "closed"
            /\ pc' = [pc EXCEPT ![t] = "cl_conn"]
            /\ hist' = [hist EXCEPT !.kaCloseCount = @ + 1]
            /\ UNCHANGED panicked
    /\ UNCHANGED <<dgram, meterVars, statVars, sessVars, lres, resVars, taddr, kaOnce, mu, connClosed, wire, loops, arg, rpos, rcv>>

\* what Conn.Close() returns: nil the first time, an error on a closed stream
ConnCloseResult == IF connClosed THEN "errClosed" ELSE "nil"

\* CloseConn that returns without closing the stream
CloseConn_KeepsOpen(t) ==
    /\ ~panicked
    /\ pc[t] = "cl_conn"
    /\ hist' = [hist EXCEPT !.connRets = Append(@, ConnCloseResult),
                            !.closeRets = Append(@, ConnCloseResult)]
    /\ pc' = [pc EXCEPT ![t] = "idle"]
    /\ arg' = [arg EXCEPT ![t] = NoArg]
    /\ UNCHANGED <<dgram, meterVars, statVars, sessVars, lres, resVars, taddr, kaOnce, kaStop, mu, connClosed, wire, loops, panicked, rpos, rcv>>

\* return c.Conn.Close()
CloseConn(t) ==
    /\ ~panicked
    /\ pc[t] = "cl_conn"
    /\ connClosed' = TRUE
    /\ hist' = [hist EXCEPT !.connRets = Append(@, ConnCloseResult),
                            !.closeRets = Append(@, ConnCloseResult)]
    /\ pc' = [pc EXCEPT ![t] = "idle"]
    /\ arg' = [arg EXCEPT ![t] = NoArg]
    /\ UNCHANGED <<dgram, meterVars, statVars, sessVars, lres, resVars, taddr, kaOnce, kaStop, mu, wire, loops, panicked, rpos, rcv>>

(* ---------------------------- frame writer ----------------------------- *)

\* a log entry, made when a writer takes the lock: the write's id, goroutine,
\* arguments, the stream offset where its frame starts, the octets of it that
\* have reached the stream, how it ended and what it returned
LogEntry(id, w, b, a, before) ==
    [id |-> id, w |-> w, payload |-> b, addr |-> a, frag |-> TunFrag,
     off |-> Len(wire), sent |-> 0, status |-> "writing", n |-> 0, before |-> before]

\* WriteHeaderStep that goes on after a parse error: the frame is built from
\* the zero socksAddr and written
WriteHeaderStep_NoParseReturn(li, b, a) ==
    LET sa == Parsed[a]
    IN  IF connClosed
        THEN /\ hist' = [hist EXCEPT !.log[li].status = "closed", !.log[li].n = Len(b)]
             /\ UNCHANGED wire
        ELSE /\ wire' = wire \o FrameHeader(b, sa)
             /\ hist' = [hist EXCEPT !.log[li].sent = Len(FrameHeader(b, sa)),
                                     !.log[li].n = Len(b)]

\* writeToLocked up to the header reaching the stream: the address is parsed
\* (a parse error returns n = 0), n becomes len(b), and a closed stream fails
\* the write; the octets of one frame reach the stream header first
WriteHeaderStep(li, b, a) ==
    LET sa == Parsed[a]
    IN  IF ~sa.ok
        THEN /\ hist' = [hist EXCEPT !.log[li].status = "parse"]
             /\ UNCHANGED wire
        ELSE IF connClosed
        THEN /\ hist' = [hist EXCEPT !.log[li].status = "closed", !.log[li].n = Len(b)]
             /\ UNCHANGED wire
        ELSE /\ wire' = wire \o FrameHeader(b, sa)
             /\ hist' = [hist EXCEPT !.log[li].sent = HeaderLen, !.log[li].n = Len(b)]

\* WriteDataStep that returns no count when the stream write fails
WriteDataStep_NoCountOnError(li, b) ==
    IF connClosed /\ b # <<>>
    THEN /\ hist' = [hist EXCEPT !.log[li].status = "closed", !.log[li].n = 0]
         /\ UNCHANGED wire
    ELSE /\ wire' = wire \o b
         /\ hist' = [hist EXCEPT !.log[li].sent = @ + Len(b), !.log[li].status = "ok"]

\* the payload octets follow the header; a stream closed meanwhile fails the write
WriteDataStep(li, b) ==
    IF connClosed /\ b # <<>>
    THEN /\ hist' = [hist EXCEPT !.log[li].status = "closed"]
         /\ UNCHANGED wire
    ELSE /\ wire' = wire \o b
         /\ hist' = [hist EXCEPT !.log[li].sent = @ + Len(b), !.log[li].status = "ok"]

\* a payload of n octets
PayloadOf(n) == [i \in 1..n |-> 7]

\* the octets of the datagram writeToLocked hands to the stream for payload b
\* and parsed address sa: the header, and the payload after it
Datagram(b, sa) == FrameHeader(b, sa) \o b

\* writeToLocked builds the datagram for a payload of n octets: Rsv =
\* uint16(len(Data)), Frag = 0xff, and Data is the whole payload
BuildDatagram(n) ==
    /\ dgram = NoDatagram
    /\ LET d == Datagram(PayloadOf(n), Parsed[AppAddr])
       IN  dgram' = [len |-> n, rsv |-> d[1] * 256 + d[2], following |-> Len(d) - HeaderLen]
    /\ UNCHANGED <<meterVars, statVars, sessVars, lres, resVars, taddr, kaOnce, kaStop, mu, connClosed, wire, loops, pc, arg, panicked, rpos, rcv, hist>>

\* WriteTo(b, addr): the call
WriteTo(t, b, a) ==
    /\ ~panicked
    /\ pc[t] = "idle"
    /\ hist.calls < MaxCalls
    /\ pc' = [pc EXCEPT ![t] = "w_lock"]
    /\ arg' = [arg EXCEPT ![t] = [op |-> "WriteTo", id |-> hist.calls + 1, payload |-> b,
                                  addr |-> a, before |-> hist.returned, li |-> 0]]
    /\ hist' = [hist EXCEPT !.calls = @ + 1]
    /\ UNCHANGED <<dgram, meterVars, statVars, sessVars, lres, resVars, taddr, kaOnce, kaStop, mu, connClosed, wire, loops, panicked, rpos, rcv>>

\* Write(b) is WriteTo(b, c.taddr), for a connection made with a fixed target
Write(t, b) ==
    /\ taddr # <<>>
    /\ WriteTo(t, b, taddr)

\* WriteLock that does not wait for the lock to be free
WriteLock_NoWait(t) ==
    /\ ~panicked
    /\ pc[t] = "w_lock"
    /\ mu' = t
    /\ hist' = [hist EXCEPT !.log = Append(@, LogEntry(arg[t].id, t, arg[t].payload,
                                                      arg[t].addr, arg[t].before))]
    /\ arg' = [arg EXCEPT ![t].li = Len(hist.log) + 1]
    /\ pc' = [pc EXCEPT ![t] = "w_hdr"]
    /\ UNCHANGED <<dgram, meterVars, statVars, sessVars, lres, resVars, taddr, kaOnce, kaStop, connClosed, wire, loops, panicked, rpos, rcv>>

\* c.mu.Lock()
WriteLock(t) ==
    /\ ~panicked
    /\ pc[t] = "w_lock"
    /\ mu = 0
    /\ mu' = t
    /\ hist' = [hist EXCEPT !.log = Append(@, LogEntry(arg[t].id, t, arg[t].payload,
                                                      arg[t].addr, arg[t].before))]
    /\ arg' = [arg EXCEPT ![t].li = Len(hist.log) + 1]
    /\ pc' = [pc EXCEPT ![t] = "w_hdr"]
    /\ UNCHANGED <<dgram, meterVars, statVars, sessVars, lres, resVars, taddr, kaOnce, kaStop, connClosed, wire, loops, panicked, rpos, rcv>>

\* writeToLocked, first part
WriteHeader(t) ==
    /\ ~panicked
    /\ pc[t] = "w_hdr"
    /\ WriteHeaderStep(arg[t].li, arg[t].payload, arg[t].addr)
    /\ pc' = [pc EXCEPT ![t] = IF Parsed[arg[t].addr].ok /\ ~connClosed
                               THEN "w_data" ELSE "w_unlock"]
    /\ UNCHANGED <<dgram, meterVars, statVars, sessVars, lres, resVars, taddr, kaOnce, kaStop, mu, connClosed, loops, arg, panicked, rpos, rcv>>

\* writeToLocked, second part
WriteData(t) ==
    /\ ~panicked
    /\ pc[t] = "w_data"
    /\ WriteDataStep(arg[t].li, arg[t].payload)
    /\ pc' = [pc EXCEPT ![t] = "w_unlock"]
    /\ UNCHANGED <<dgram, meterVars, statVars, sessVars, lres, resVars, taddr, kaOnce, kaStop, mu, connClosed, loops, arg, panicked, rpos, rcv>>

\* the deferred c.mu.Unlock(), and the return
WriteUnlock(t) ==
    /\ ~panicked
    /\ pc[t] = "w_unlock"
    /\ mu' = 0
    /\ hist' = [hist EXCEPT !.returned = @ \cup {arg[t].id}]
    /\ pc' = [pc EXCEPT ![t] = "idle"]
    /\ arg' = [arg EXCEPT ![t] = NoArg]
    /\ UNCHANGED <<dgram, meterVars, statVars, sessVars, lres, resVars, taddr, kaOnce, kaStop, connClosed, wire, loops, panicked, rpos, rcv>>

(* --------------------------- keepalive loop ---------------------------- *)

LoopIds == 1..Len(loops)

\* case <-ticker.C: kaAddr resolved from "127.0.0.1:1" is never nil; the
\* ticker fires at most max times
KaTickWithin(i, max) ==
    /\ ~panicked
    /\ loops[i].pc = "select"
    /\ hist.ticks < max
    /\ loops' = [loops EXCEPT ![i].pc = "k_lock"]
    /\ hist' = [hist EXCEPT !.ticks = @ + 1]
    /\ UNCHANGED <<dgram, meterVars, statVars, sessVars, lres, resVars, taddr, kaOnce, kaStop, mu, connClosed, wire, pc, arg, panicked, rpos, rcv>>

\* case <-ticker.C, for at most MaxTicks ticks
KaTick(i) == KaTickWithin(i, MaxTicks)

\* case <-ticker.C of a ticker that keeps firing: at most MaxTicks ticks
\* while the stream is open, and the next tick whenever it is closed
KaTickLive(i) == KaTickWithin(i, IF connClosed THEN hist.ticks + 1 ELSE MaxTicks)

\* case <-c.kaStop: return
KaStopped(i) ==
    /\ ~panicked
    /\ loops[i].pc = "select"
    /\ kaStop = "closed"
    /\ loops' = [loops EXCEPT ![i].pc = "done"]
    /\ UNCHANGED <<dgram, meterVars, statVars, sessVars, lres, resVars, taddr, kaOnce, kaStop, mu, connClosed, wire, pc, arg, panicked,
                   rpos, rcv, hist>>

\* c.mu.Lock()
KaLock(i) ==
    /\ ~panicked
    /\ loops[i].pc = "k_lock"
    /\ mu = 0
    /\ mu' = LoopId(i)
    /\ hist' = [hist EXCEPT !.log = Append(@, LogEntry(0 - hist.ticks, LoopId(i), <<>>,
                                                      KaAddr, hist.returned))]
    /\ loops' = [loops EXCEPT ![i].pc = "k_hdr", ![i].li = Len(hist.log) + 1]
    /\ UNCHANGED <<dgram, meterVars, statVars, sessVars, lres, resVars, taddr, kaOnce, kaStop, connClosed, wire, pc, arg, panicked, rpos, rcv>>

\* c.writeToLocked(nil, kaAddr), first part
KaHeader(i) ==
    /\ ~panicked
    /\ loops[i].pc = "k_hdr"
    /\ WriteHeaderStep(loops[i].li, <<>>, KaAddr)
    /\ loops' = [loops EXCEPT ![i].pc = IF connClosed THEN "k_unlock" ELSE "k_data"]
    /\ UNCHANGED <<dgram, meterVars, statVars, sessVars, lres, resVars, taddr, kaOnce, kaStop, mu, connClosed, pc, arg, panicked, rpos, rcv>>

\* c.writeToLocked(nil, kaAddr), second part
KaData(i) ==
    /\ ~panicked
    /\ loops[i].pc = "k_data"
    /\ WriteDataStep(loops[i].li, <<>>)
    /\ loops' = [loops EXCEPT ![i].pc = "k_unlock"]
    /\ UNCHANGED <<dgram, meterVars, statVars, sessVars, lres, resVars, taddr, kaOnce, kaStop, mu, connClosed, pc, arg, panicked, rpos, rcv>>

\* KaUnlock without the return on error: the loop goes on to the next tick
KaUnlock_NoReturn(i) ==
    /\ ~panicked
    /\ loops[i].pc = "k_unlock"
    /\ mu' = 0
    /\ hist' = [hist EXCEPT !.returned = @ \cup {hist.log[loops[i].li].id}]
    /\ loops' = [loops EXCEPT ![i].pc = "select"]
    /\ UNCHANGED <<dgram, meterVars, statVars, sessVars, lres, resVars, taddr, kaOnce, kaStop, connClosed, wire, pc, arg, panicked, rpos, rcv>>

\* c.mu.Unlock(); if err != nil { return }
KaUnlock(i) ==
    /\ ~panicked
    /\ loops[i].pc = "k_unlock"
    /\ mu' = 0
    /\ hist' = [hist EXCEPT !.returned = @ \cup {hist.log[loops[i].li].id}]
    /\ loops' = [loops EXCEPT ![i].pc = IF hist.log[loops[i].li].status = "ok"
                                        THEN "select" ELSE "done"]
    /\ UNCHANGED <<dgram, meterVars, statVars, sessVars, lres, resVars, taddr, kaOnce, kaStop, connClosed, wire, pc, arg, panicked, rpos, rcv>>

(* ---------------------------- frame reader ----------------------------- *)

\* octets written and not yet read
Avail == Len(wire) - rpos

\* net.ResolveUDPAddr("udp", s) for an IP literal, as the String() of the result
ResolveUDPAddr(s) ==
    LET sa == ParseFrom(s)
    IN  IF sa.ok THEN JoinHostPort(IPString(sa.host), Itoa(sa.port)) ELSE <<>>

\* gosocks5.Addr.String() of the address octets of a header
HeaderAddrString(h) ==
    JoinHostPort(IPString(SubSeq(h, 5, 8)), Itoa(h[9] * 256 + h[10]))

\* the address ReadFrom returns for the address octets e of a header (ATYP,
\* address, port): net.ResolveUDPAddr("udp", socksAddr.String())
DecodeAddr(e) == ResolveUDPAddr(HeaderAddrString(<<0, 0, 0>> \o e))

\* DecodeAddr of the address octets the writers produce, tabulated
Decoded == [e \in {EncodeAddr(Parsed[s]) : s \in {KaAddr, AppAddr}} |-> DecodeAddr(e)]

\* the first k octets of s
Take(s, k) == SubSeq(s, 1, IF k < Len(s) THEN k ELSE Len(s))

\* What the reader takes as payload after a header whose RSV is dlen.
\* dlen > 0: exactly dlen octets (the read waits until they are there).
\* dlen = 0: the decoder treats the frame as a plain SOCKS5 datagram whose
\* payload is whatever the stream delivers next: one octet or more, once any
\* is there (the read waits until then).
PayloadTakes(dlen) ==
    IF dlen > 0
    THEN IF Avail >= HeaderLen + dlen THEN {dlen} ELSE {}
    ELSE 1..(Avail - HeaderLen)

\* ReadFrom(b) with len(b) = buflen > 0: dgram.ReadFrom(c.Conn) decodes the header
\* and the payload, n = len(dgram.Data), capped by copy at len(b); the address
\* is resolved from the decoded header.  The fragment octet is decoded and
\* not looked at.
ReadFrom(buflen) ==
    /\ ~panicked
    /\ Len(rcv) < MaxReads
    /\ Avail >= HeaderLen
    /\ LET h    == SubSeq(wire, rpos + 1, rpos + HeaderLen)
           dlen == h[1] * 256 + h[2]
       IN  /\ h[4] = AddrIPv4
           /\ \E k \in PayloadTakes(dlen) :
                LET data == SubSeq(wire, rpos + HeaderLen + 1, rpos + HeaderLen + k)
                    e    == SubSeq(h, 4, HeaderLen)
                    addr == IF e \in DOMAIN Decoded THEN Decoded[e] ELSE DecodeAddr(e)
                IN  /\ rcv' = Append(rcv, [off |-> rpos, used |-> HeaderLen + k,
                                           buf |-> buflen, frag |-> h[3],
                                           n |-> IF k > buflen THEN buflen ELSE k,
                                           data |-> Take(data, buflen),
                                           addr |-> addr,
                                           err |-> IF addr = <<>> THEN "resolve" ELSE "nil"])
                    /\ rpos' = rpos + HeaderLen + k
    /\ UNCHANGED <<dgram, meterVars, statVars, sessVars, lres, resVars, taddr, kaOnce, kaStop, mu, connClosed, wire, loops, pc, arg, panicked, hist>>

(* ------------------------------- resolve ------------------------------- *)

\* m with key k set to e
MapSet(m, k, e) == [x \in DOMAIN m \cup {k} |-> IF x = k THEN e ELSE m[x]]

\* the call of goroutine t returns the address ret and the error err
Return(t, c, ret, err) ==
    /\ rcall' = [rcall EXCEPT ![t] = [c EXCEPT !.ret = ret, !.err = err,
                                               !.done = TRUE, !.retAt = now]]
    /\ rpc' = [rpc EXCEPT ![t] = "idle"]

\* the last store for host that a call starting now can count on: made by a
\* call that has returned, less than TTL ago
Promised(host) ==
    IF host \in DOMAIN rhist.lastStore /\ now < rhist.lastStore[host].at + TTL
    THEN rhist.lastStore[host]
    ELSE [ip |-> <<>>, at |-> -1]

\* resolve(ctx, addr, mark): the call and net.SplitHostPort; an address that
\* does not split is returned as it is; at most max calls are made
ResolveWithin(max, t, addr, mark, canceled) ==
    /\ rpc[t] = "idle"
    /\ rhist.calls < max
    /\ rhist' = [rhist EXCEPT !.calls = @ + 1]
    /\ LET hp == SplitHostPort(addr)
           c  == [op |-> "resolve", addr |-> addr, mark |-> mark,
                  canceled |-> canceled, split |-> hp.ok,
                  host |-> hp.host, port |-> hp.port, loaded |-> FALSE,
                  entry |-> NoEntry, checkAt |-> -1, evicted |-> FALSE,
                  lookups |-> 0, ips |-> <<>>, ip |-> <<>>, stored |-> FALSE,
                  storedEntry |-> NoEntry, storeAt |-> -1,
                  ret |-> <<>>, err |-> "nil", done |-> FALSE, retAt |-> -1,
                  promised |-> Promised(hp.host)]
       IN  IF ~hp.ok
           THEN Return(t, c, addr, "nil")
           ELSE /\ rcall' = [rcall EXCEPT ![t] = c]
                /\ rpc' = [rpc EXCEPT ![t] = "r_load"]
    /\ UNCHANGED <<ipCache, now, socks, lres, sessVars, statVars, meterVars, tunVars>>

\* AfterCache without the literal-IP test: every host goes to the lookup
AfterCache_NoIPTest(t, c) ==
    /\ rcall' = [rcall EXCEPT ![t] = c]
    /\ rpc' = [rpc EXCEPT ![t] = "r_lookup"]

\* after a cache miss or an eviction: if net.ParseIP(host) != nil the address
\* is returned as it is, else the lookup follows
AfterCache(t, c) ==
    IF ParseIP(c.host) # <<>>
    THEN Return(t, c, c.addr, "nil")
    ELSE /\ rcall' = [rcall EXCEPT ![t] = c]
         /\ rpc' = [rpc EXCEPT ![t] = "r_lookup"]

\* resolve(ctx, addr, mark), for at most MaxResolves calls
Resolve(t, addr, mark, canceled) == ResolveWithin(MaxResolves, t, addr, mark, canceled)

\* v, ok := ipCache.Load(host)
CacheLoad(t) ==
    /\ rpc[t] = "r_load"
    /\ IF rcall[t].host \in DOMAIN ipCache
       THEN /\ rcall' = [rcall EXCEPT ![t].loaded = TRUE,
                                      ![t].entry = ipCache[rcall[t].host]]
            /\ rpc' = [rpc EXCEPT ![t] = "r_check"]
       ELSE AfterCache(t, rcall[t])
    /\ UNCHANGED <<ipCache, now, socks, rhist, lres, sessVars, statVars, meterVars, tunVars>>

\* CacheCheck that takes every loaded entry as expired
CacheCheck_AlwaysExpired(t) ==
    /\ rpc[t] = "r_check"
    /\ rcall' = [rcall EXCEPT ![t].checkAt = now]
    /\ rpc' = [rpc EXCEPT ![t] = "r_delete"]
    /\ UNCHANGED <<ipCache, now, socks, rhist, lres, sessVars, statVars, meterVars, tunVars>>

\* CacheCheck that takes every loaded entry as valid
CacheCheck_NeverExpired(t) ==
    /\ rpc[t] = "r_check"
    /\ Return(t, [rcall[t] EXCEPT !.checkAt = now],
              JoinHostPort(rcall[t].entry.ip, rcall[t].port), "nil")
    /\ UNCHANGED <<ipCache, now, socks, rhist, lres, sessVars, statVars, meterVars, tunVars>>

\* if time.Now().Before(c.expiresAt) { return net.JoinHostPort(c.ip, port), nil }
CacheCheck(t) ==
    /\ rpc[t] = "r_check"
    /\ LET c == [rcall[t] EXCEPT !.checkAt = now]
       IN  IF now < c.entry.expiresAt
           THEN Return(t, c, JoinHostPort(c.entry.ip, c.port), "nil")
           ELSE /\ rcall' = [rcall EXCEPT ![t] = c]
                /\ rpc' = [rpc EXCEPT ![t] = "r_delete"]
    /\ UNCHANGED <<ipCache, now, socks, rhist, lres, sessVars, statVars, meterVars, tunVars>>

\* ipCache.Delete(host)
CacheDelete(t) ==
    /\ rpc[t] = "r_delete"
    /\ ipCache' = CacheDeleted(rcall[t].host)
    /\ AfterCache(t, [rcall[t] EXCEPT !.evicted = TRUE])
    /\ UNCHANGED <<now, socks, rhist, lres, sessVars, statVars, meterVars, tunVars>>

\* the SO_MARK of a socket the lookup opens: the Dial hook is installed only
\* if mark > 0, and the result of SetsockoptInt is dropped, so a socket whose
\* option could not be set is used unmarked
SockMarks(mark) == IF mark > 0 THEN {mark, 0} ELSE {0}

\* the lookup opens a socket: resolver.Dial, or the resolver's own dialer
Dial(t) ==
    /\ rpc[t] = "r_lookup"
    /\ Len(socks) < MaxSocks
    /\ \E m \in SockMarks(rcall[t].mark) :
          socks' = Append(socks, [mark |-> rcall[t].mark, opt |-> m])
    /\ UNCHANGED <<ipCache, now, rpc, rcall, rhist, lres, sessVars, statVars, meterVars, tunVars>>

\* what LookupIP can return to a call: any result of rs, and the cancellation
\* error once the context is cancelled
LookupOutcomes(rs, canceled) ==
    rs \cup (IF canceled THEN {[err |-> "canceled", ips |-> <<>>]} ELSE {})

\* LookupIP without the test for an empty answer: the store follows every
\* answer that is not an error
LookupIP_NoEmptyTest(t, rs) ==
    /\ rpc[t] = "r_lookup"
    /\ \E out \in LookupOutcomes(rs, rcall[t].canceled) :
          LET c == [rcall[t] EXCEPT !.lookups = @ + 1, !.ips = out.ips]
          IN  IF out.err # "nil"
              THEN Return(t, c, <<>>, out.err)
              ELSE /\ rcall' = [rcall EXCEPT ![t] =
                         [c EXCEPT !.ip = IF Len(out.ips) = 0 THEN <<>>
                                          ELSE IPString(out.ips[1])]]
                   /\ rpc' = [rpc EXCEPT ![t] = "r_store"]
    /\ UNCHANGED <<ipCache, now, socks, rhist, lres, sessVars, statVars, meterVars, tunVars>>

\* LookupIP that asks again after an error
LookupIP_Retry(t, rs) ==
    /\ rpc[t] = "r_lookup"
    /\ \E out \in LookupOutcomes(rs, rcall[t].canceled) :
          LET c == [rcall[t] EXCEPT !.lookups = @ + 1, !.ips = out.ips]
          IN  IF out.err # "nil"
              THEN IF rcall[t].lookups = 0
                   THEN /\ rcall' = [rcall EXCEPT ![t] = c]
                        /\ UNCHANGED rpc
                   ELSE Return(t, c, <<>>, out.err)
              ELSE IF Len(out.ips) = 0
              THEN Return(t, c, <<>>, "nosuchhost")
              ELSE /\ rcall' = [rcall EXCEPT ![t] = [c EXCEPT !.ip = IPString(out.ips[1])]]
                   /\ rpc' = [rpc EXCEPT ![t] = "r_store"]
    /\ UNCHANGED <<ipCache, now, socks, rhist, lres, sessVars, statVars, meterVars, tunVars>>

\* ips, err := resolver.LookupIP(ctx, "ip", host), and the two error returns
LookupIP(t, rs) ==
    /\ rpc[t] = "r_lookup"
    /\ \E out \in LookupOutcomes(rs, rcall[t].canceled) :
          LET c == [rcall[t] EXCEPT !.lookups = @ + 1, !.ips = out.ips]
          IN  IF out.err # "nil"
              THEN Return(t, c, <<>>, out.err)
              ELSE IF Len(out.ips) = 0
              THEN Return(t, c, <<>>, "nosuchhost")
              ELSE /\ rcall' = [rcall EXCEPT ![t] = [c EXCEPT !.ip = IPString(out.ips[1])]]
                   /\ rpc' = [rpc EXCEPT ![t] = "r_store"]
    /\ UNCHANGED <<ipCache, now, socks, rhist, lres, sessVars, statVars, meterVars, tunVars>>

\* CacheStore with an expiry one minute later than the 5 minutes
CacheStore_LongLived(t) ==
    /\ rpc[t] = "r_store"
    /\ LET c == rcall[t]
           e == [ip |-> c.ip, expiresAt |-> now + TTL + 1]
       IN  /\ ipCache' = CacheStored(c.host, e)
           /\ rhist' = [rhist EXCEPT !.lastStore =
                                        MapSet(@, c.host, [ip |-> c.ip, at |-> now])]
           /\ Return(t, [c EXCEPT !.stored = TRUE, !.storedEntry = e, !.storeAt = now],
                     JoinHostPort(c.ip, c.port), "nil")
    /\ UNCHANGED <<now, socks, lres, sessVars, statVars, meterVars, tunVars>>

\* ipCache.Store(host, cachedIP{ip, time.Now().Add(5 * time.Minute)}) and
\* return net.JoinHostPort(ip, port), nil
CacheStore(t) ==
    /\ rpc[t] = "r_store"
    /\ LET c == rcall[t]
           e == [ip |-> c.ip, expiresAt |-> now + TTL]
       IN  /\ ipCache' = CacheStored(c.host, e)
           /\ rhist' = [rhist EXCEPT !.lastStore =
                                        MapSet(@, c.host, [ip |-> c.ip, at |-> now])]
           /\ Return(t, [c EXCEPT !.stored = TRUE, !.storedEntry = e, !.storeAt = now],
                     JoinHostPort(c.ip, c.port), "nil")
    /\ UNCHANGED <<now, socks, lres, sessVars, statVars, meterVars, tunVars>>

\* the caller cancels the context of a call in progress
Cancel(t) ==
    /\ rpc[t] # "idle"
    /\ ~rcall[t].canceled
    /\ rcall' = [rcall EXCEPT ![t].canceled = TRUE]
    /\ UNCHANGED <<ipCache, now, rpc, socks, rhist, lres, sessVars, statVars, meterVars, tunVars>>

\* time passes: a minute, or the cache's time to live
Advance(d) ==
    /\ now + d <= MaxNow
    /\ now' = now + d
    /\ UNCHANGED <<ipCache, rpc, rcall, socks, rhist, lres, sessVars, statVars, meterVars, tunVars>>

(* --------------------- layered Resolve (package net) ------------------- *)

\* ":53", an address with a port and an empty host
PortOnly == <<":", "5", "3">>

\* addresses handed to the layered Resolve
LayeredAddrs == {<<>>, HostAddr, AppAddr, IPNoPort, PortOnly}

\* the hosts argument: nil, or a host mapper and what its Lookup answers
HostMappers ==
    {[set |-> FALSE, ips |-> <<>>]}
        \cup {[set |-> TRUE, ips |-> l] :
                 l \in {<<>>, <<<<1, 1, 1, 1>>>>, <<<<2, 2, 2, 2>>, <<1, 1, 1, 1>>>>}}

\* the r argument: nil, or a resolver and what its Resolve answers: a list of
\* addresses together with nil, resolver.ErrInvalid or another error
Resolvers ==
    {[set |-> FALSE, err |-> "nil", ips |-> <<>>]}
        \cup {[set |-> TRUE, err |-> e, ips |-> l] :
                 e \in {"nil", "invalid", "fail"},
                 l \in {<<>>, <<<<3, 3, 3, 3>>>>, <<<<4, 4, 4, 4>>, <<3, 3, 3, 3>>>>}}

\* the resolver part without the test for resolver.ErrInvalid
ResolverPart_NoInvalidTest(addr, port, asked, r) ==
    IF r.set
    THEN IF Len(r.ips) = 0
         THEN [ret |-> <<>>, err |-> "notexist", mapper |-> asked, resolver |-> TRUE]
         ELSE [ret |-> JoinHostPort(IPString(r.ips[1]), port), err |-> "nil",
               mapper |-> asked, resolver |-> TRUE]
    ELSE [ret |-> addr, err |-> "nil", mapper |-> asked, resolver |-> FALSE]

\* the rest of Resolve once the host mapper has given nothing: the resolver
\* is asked if there is one
ResolverPart(addr, port, asked, r) ==
    IF r.set
    THEN IF r.err = "invalid"
         THEN [ret |-> addr, err |-> "nil", mapper |-> asked, resolver |-> TRUE]
         ELSE IF Len(r.ips) = 0
         THEN [ret |-> <<>>, err |-> "notexist", mapper |-> asked, resolver |-> TRUE]
         ELSE [ret |-> JoinHostPort(IPString(r.ips[1]), port), err |-> "nil",
               mapper |-> asked, resolver |-> TRUE]
    ELSE [ret |-> addr, err |-> "nil", mapper |-> asked, resolver |-> FALSE]

\* Resolve without the test for an empty host
LayeredResolve_NoHostTest(addr, hm, r) ==
    LET hp == SplitHostPort(addr)
    IN  IF addr = <<>>
        THEN [ret |-> addr, err |-> "nil", mapper |-> FALSE, resolver |-> FALSE]
        ELSE IF hm.set /\ Len(hm.ips) > 0
        THEN [ret |-> JoinHostPort(IPString(hm.ips[1]), hp.port), err |-> "nil",
              mapper |-> TRUE, resolver |-> FALSE]
        ELSE ResolverPart(addr, hp.port, hm.set, r)

\* Resolve that asks the resolver before the host mapper
LayeredResolve_ResolverFirst(addr, hm, r) ==
    LET hp == SplitHostPort(addr)
    IN  IF addr = <<>> \/ hp.host = <<>>
        THEN [ret |-> addr, err |-> "nil", mapper |-> FALSE, resolver |-> FALSE]
        ELSE IF r.set
        THEN ResolverPart(addr, hp.port, FALSE, r)
        ELSE IF hm.set /\ Len(hm.ips) > 0
        THEN [ret |-> JoinHostPort(IPString(hm.ips[1]), hp.port), err |-> "nil",
              mapper |-> TRUE, resolver |-> FALSE]
        ELSE [ret |-> addr, err |-> "nil", mapper |-> hm.set, resolver |-> FALSE]

\* Resolve(ctx, network, addr, r, hosts, log): what it returns, and whether it
\* asked the host mapper and the resolver
LayeredResolve(addr, hm, r) ==
    LET hp == SplitHostPort(addr)
    IN  IF addr = <<>> \/ hp.host = <<>>
        THEN [ret |-> addr, err |-> "nil", mapper |-> FALSE, resolver |-> FALSE]
        ELSE IF hm.set /\ Len(hm.ips) > 0
        THEN [ret |-> JoinHostPort(IPString(hm.ips[1]), hp.port), err |-> "nil",
              mapper |-> TRUE, resolver |-> FALSE]
        ELSE ResolverPart(addr, hp.port, hm.set, r)

\* a call of the layered Resolve
CallResolve(addr, hm, r) ==
    /\ Len(lres) < MaxLayered
    /\ lres' = Append(lres, [addr |-> addr, hosts |-> hm, r |-> r,
                             out |-> LayeredResolve(addr, hm, r)])
    /\ UNCHANGED <<resVars, sessVars, statVars, meterVars, tunVars>>

(* ------------------- SimpleSessionStore (package dtls) ------------------ *)

\* session ids handed to the store as keys
Keys == {<<1>>, <<2>>}

\* piondtls.Session{}: the zero session
EmptySession == [ID |-> <<>>, Secret |-> <<>>]

\* sessions handed to Set
Sessions == {[ID |-> <<1>>, Secret |-> <<7>>], [ID |-> <<2>>, Secret |-> <<8>>]}

\* string(key): the octets of the key as a string
KeyString(key) == [i \in 1..Len(key) |-> key[i]]

\* sync.Map.Store: the pairs of the key are replaced by the one pair given
MapStore(m, k, v) == {p \in m : p[1] # k} \cup {<<k, v>>}

\* sync.Map.Delete
MapDelete(m, k) == {p \in m : p[1] # k}

\* sync.Map.Load: ok and the value held for the key
MapLoad(m, k) ==
    IF \E p \in m : p[1] = k
    THEN [ok |-> TRUE, v |-> (CHOOSE p \in m : p[1] = k)[2]]
    ELSE [ok |-> FALSE, v |-> EmptySession]

\* session store calls begun so far
StoreCalls == Len(slog) + Cardinality({t \in Threads : scall[t].op # "none"})

\* a goroutine calls Set, Get or Del
StoreCall(t, op, key, session) ==
    /\ scall[t].op = "none"
    /\ StoreCalls < MaxStoreCalls
    /\ scall' = [scall EXCEPT ![t] = [op |-> op, key |-> key, session |-> session]]
    /\ UNCHANGED <<sessionStore, slog, lres, resVars, statVars, meterVars, tunVars>>

\* the call of goroutine t has taken effect and returns ret and err
StoreReturn(t, ret, err) ==
    /\ slog' = Append(slog, [op |-> scall[t].op, key |-> scall[t].key,
                             session |-> scall[t].session, ret |-> ret,
                             err |-> err, t |-> t])
    /\ scall' = [scall EXCEPT ![t] = NoCall]

\* Set: s.m.Store(string(key), session); return nil
Set(t) ==
    /\ scall[t].op = "Set"
    /\ sessionStore' = MapStore(sessionStore, KeyString(scall[t].key), scall[t].session)
    /\ StoreReturn(t, EmptySession, "nil")
    /\ UNCHANGED <<lres, resVars, statVars, meterVars, tunVars>>

\* Get: the session loaded for string(key), or piondtls.Session{}; the error
\* is nil
Get(t) ==
    /\ scall[t].op = "Get"
    /\ LET l == MapLoad(sessionStore, KeyString(scall[t].key))
       IN  StoreReturn(t, IF l.ok THEN l.v ELSE EmptySession, "nil")
    /\ UNCHANGED <<sessionStore, lres, resVars, statVars, meterVars, tunVars>>

\* Del that leaves the store as it is
Del_KeepsEntry(t) ==
    /\ scall[t].op = "Del"
    /\ StoreReturn(t, EmptySession, "nil")
    /\ UNCHANGED <<sessionStore, lres, resVars, statVars, meterVars, tunVars>>

\* Del that empties the store
Del_AllKeys(t) ==
    /\ scall[t].op = "Del"
    /\ sessionStore' = {}
    /\ StoreReturn(t, EmptySession, "nil")
    /\ UNCHANGED <<lres, resVars, statVars, meterVars, tunVars>>

\* Del: s.m.Delete(string(key)); return nil
Del(t) ==
    /\ scall[t].op = "Del"
    /\ sessionStore' = MapDelete(sessionStore, KeyString(scall[t].key))
    /\ StoreReturn(t, EmptySession, "nil")
    /\ UNCHANGED <<lres, resVars, statVars, meterVars, tunVars>>

(* ------------------ stats reporter registry (package tungo) ------------- *)

\* the reporter held for the guid: the zero value nil when there is no entry
MapGet(m, guid) == IF guid \in DOMAIN m THEN m[guid] ELSE NilReporter

\* delete(m, guid)
MapRemove(m, guid) == [k \in DOMAIN m \ {guid} |-> m[k]]

\* registry calls begun so far: a lookup made inside a dispatch is no call of
\* its own
StatCalls ==
    Cardinality({i \in 1..Len(stlog) : ~stlog[i].inner})
        + Cardinality({t \in Threads : stpc[t] # "idle"})

\* a line of the log; the fields a call does not use stay at their zero
StatEntry(op, guid, reporter) ==
    [op |-> op, guid |-> guid, reporter |-> reporter, inner |-> FALSE,
     args |-> <<>>, seen |-> NilReporter, steady |-> TRUE, cb |-> 0]

\* strings.ToLower for the protocol names in use
ToLower(protocol) == IF protocol = "UDP" THEN "udp" ELSE protocol

\* normalizeConnID: fmt.Sprintf("%s->%s/%s", srcAddr, dstAddr, strings.ToLower(protocol))
normalizeConnID(srcAddr, dstAddr, protocol) ==
    srcAddr \o "->" \o dstAddr \o "/" \o ToLower(protocol)

\* a connectionMeter just created
NewMeter == [rxBytes |-> 0, txBytes |-> 0]

\* getOrCreateMeter: the meters with one for connID among them
getOrCreateMeter(meters, connID) ==
    IF connID \in DOMAIN meters THEN meters
    ELSE [k \in DOMAIN meters \cup {connID} |-> IF k = connID THEN NewMeter ELSE meters[k]]

\* OnPacket of the reporter id: the mock appends the event to its packets, the
\* realistic reporter adds the size to the meter of
\* normalizeConnID(srcAddr, dstAddr, protocol) under the direction
OnPacket(rep, id, a) ==
    IF id \in MockReporters
    THEN [rep EXCEPT !.packets = Append(@, a)]
    ELSE LET connID == normalizeConnID(a.srcAddr, a.dstAddr, a.protocol)
             ms     == getOrCreateMeter(rep.meters, connID)
         IN  [rep EXCEPT !.meters =
                 IF a.direction = "rx"
                 THEN [ms EXCEPT ![connID].rxBytes = @ + a.byteSize]
                 ELSE IF a.direction = "tx"
                 THEN [ms EXCEPT ![connID].txBytes = @ + a.byteSize]
                 ELSE ms]

\* OnConnectionStart: the mock appends the event, the realistic reporter
\* counts it and creates the meter
OnConnectionStart(rep, id, a) ==
    IF id \in MockReporters
    THEN [rep EXCEPT !.connectionsStart = Append(@, a)]
    ELSE [rep EXCEPT !.startsCount = @ + 1,
                     !.meters = getOrCreateMeter(@,
                                    normalizeConnID(a.srcAddr, a.dstAddr, a.protocol))]

\* OnConnectionEnd: the mock appends the event, the realistic reporter counts
\* it and deletes the meter
OnConnectionEnd(rep, id, a) ==
    IF id \in MockReporters
    THEN [rep EXCEPT !.connectionsEnd = Append(@, a)]
    ELSE [rep EXCEPT !.endsCount = @ + 1,
                     !.meters = MapRemove(@,
                                    normalizeConnID(a.srcAddr, a.dstAddr, a.protocol))]

\* RegisterStatsReporter that stores whatever it is given
RegisterWithin_NoArgTest(max, t, guid, reporter) ==
    /\ stpc[t] = "idle"
    /\ StatCalls < max
    /\ stcall' = [stcall EXCEPT ![t] = StatEntry("register", guid, reporter)]
    /\ stpc' = [stpc EXCEPT ![t] = "lock"]
    /\ UNCHANGED <<stlog, statsReporters, statsReportersMu, reporters>>
    /\ UNCHANGED <<lres, resVars, sessVars, meterVars, tunVars>>

\* RegisterStatsReporter(guid, reporter): an empty guid or a nil reporter
\* returns at once; at most max calls are made
RegisterWithin(max, t, guid, reporter) ==
    /\ stpc[t] = "idle"
    /\ StatCalls < max
    /\ IF guid = "" \/ reporter = NilReporter
       THEN /\ stlog' = Append(stlog, StatEntry("register", guid, reporter))
            /\ UNCHANGED <<stpc, stcall>>
       ELSE /\ stcall' = [stcall EXCEPT ![t] = StatEntry("register", guid, reporter)]
            /\ stpc' = [stpc EXCEPT ![t] = "lock"]
            /\ UNCHANGED stlog
    /\ UNCHANGED <<statsReporters, statsReportersMu, reporters>>
    /\ UNCHANGED <<lres, resVars, sessVars, meterVars, tunVars>>

RegisterStatsReporter(t, guid, reporter) == RegisterWithin(MaxStatCalls, t, guid, reporter)

\* UnregisterStatsReporter(guid): an empty guid returns at once
UnregisterStatsReporter(t, guid) ==
    /\ stpc[t] = "idle"
    /\ StatCalls < MaxStatCalls
    /\ IF guid = ""
       THEN /\ stlog' = Append(stlog, StatEntry("unregister", guid, NilReporter))
            /\ UNCHANGED <<stpc, stcall>>
       ELSE /\ stcall' = [stcall EXCEPT ![t] = StatEntry("unregister", guid, NilReporter)]
            /\ stpc' = [stpc EXCEPT ![t] = "lock"]
            /\ UNCHANGED stlog
    /\ UNCHANGED <<statsReporters, statsReportersMu, reporters>>
    /\ UNCHANGED <<lres, resVars, sessVars, meterVars, tunVars>>

\* getStatsReporter(guid), called by itself (op "get") or by a dispatch: an
\* empty guid gives nil at once, and a dispatch that gets nil is over
GetCall(max, t, op, guid, args) ==
    /\ stpc[t] = "idle"
    /\ StatCalls < max
    /\ LET c == [StatEntry(op, guid, NilReporter) EXCEPT
                     !.args = args, !.seen = MapGet(statsReporters, guid)]
       IN  IF guid = ""
           THEN /\ stlog' = stlog \o
                        (IF op = "get" THEN <<c>>
                         ELSE <<[StatEntry("get", guid, NilReporter) EXCEPT !.inner = TRUE], c>>)
                /\ UNCHANGED <<stpc, stcall>>
           ELSE /\ stcall' = [stcall EXCEPT ![t] = c]
                /\ stpc' = [stpc EXCEPT ![t] = "rlock"]
                /\ UNCHANGED stlog
    /\ UNCHANGED <<statsReporters, statsReportersMu, reporters>>
    /\ UNCHANGED <<lres, resVars, sessVars, meterVars, tunVars>>

getStatsReporter(t, guid) == GetCall(MaxStatCalls, t, "get", guid, <<>>)

\* statsReportersMu.Lock that does not wait for the lock to be free
MuLock_NoWait(t) ==
    /\ stpc[t] = "lock"
    /\ statsReportersMu' = [statsReportersMu EXCEPT !.w = t]
    /\ stpc' = [stpc EXCEPT ![t] = "write"]
    /\ UNCHANGED <<statsReporters, stcall, reporters, stlog>>
    /\ UNCHANGED <<lres, resVars, sessVars, meterVars, tunVars>>

\* statsReportersMu.Lock(): waits until no writer and no reader holds the lock
MuLock(t) ==
    /\ stpc[t] = "lock"
    /\ statsReportersMu.w = 0
    /\ statsReportersMu.r = {}
    /\ statsReportersMu' = [statsReportersMu EXCEPT !.w = t]
    /\ stpc' = [stpc EXCEPT ![t] = "write"]
    /\ UNCHANGED <<statsReporters, stcall, reporters, stlog>>
    /\ UNCHANGED <<lres, resVars, sessVars, meterVars, tunVars>>

\* the dispatches in progress for the guid learn that its entry has changed
Unsteady(t, guid, changed) ==
    [u \in Threads |->
        IF u # t /\ stcall[u].op # "none" /\ stcall[u].guid = guid /\ changed
        THEN [stcall[u] EXCEPT !.steady = FALSE]
        ELSE IF u = t THEN stcall[t] ELSE stcall[u]]

\* the map write without the delete: an unregistered guid keeps its entry
MapWrite_NoDelete(t) ==
    /\ stpc[t] = "write"
    /\ LET c == stcall[t]
           m == IF c.op = "register"
                THEN MapSet(statsReporters, c.guid, c.reporter)
                ELSE statsReporters
       IN  /\ statsReporters' = m
           /\ stcall' = Unsteady(t, c.guid, MapGet(m, c.guid) # MapGet(statsReporters, c.guid))
           /\ stlog' = Append(stlog, c)
    /\ stpc' = [stpc EXCEPT ![t] = "unlock"]
    /\ UNCHANGED <<statsReportersMu, reporters>>
    /\ UNCHANGED <<lres, resVars, sessVars, meterVars, tunVars>>

\* statsReporters[guid] = reporter, or delete(statsReporters, guid)
MapWrite(t) ==
    /\ stpc[t] = "write"
    /\ LET c == stcall[t]
           m == IF c.op = "register"
                THEN MapSet(statsReporters, c.guid, c.reporter)
                ELSE MapRemove(statsReporters, c.guid)
       IN  /\ statsReporters' = m
           /\ stcall' = Unsteady(t, c.guid, MapGet(m, c.guid) # MapGet(statsReporters, c.guid))
           /\ stlog' = Append(stlog, c)
    /\ stpc' = [stpc EXCEPT ![t] = "unlock"]
    /\ UNCHANGED <<statsReportersMu, reporters>>
    /\ UNCHANGED <<lres, resVars, sessVars, meterVars, tunVars>>

\* statsReportersMu.Unlock() and the return of the call
MuUnlock(t) ==
    /\ stpc[t] = "unlock"
    /\ statsReportersMu' = [statsReportersMu EXCEPT !.w = 0]
    /\ stpc' = [stpc EXCEPT ![t] = "idle"]
    /\ stcall' = [stcall EXCEPT ![t] = NoCall]
    /\ UNCHANGED <<statsReporters, reporters, stlog>>
    /\ UNCHANGED <<lres, resVars, sessVars, meterVars, tunVars>>

\* statsReportersMu.RLock(): waits until no writer holds the lock
MuRLock(t) ==
    /\ stpc[t] = "rlock"
    /\ statsReportersMu.w = 0
    /\ statsReportersMu' = [statsReportersMu EXCEPT !.r = @ \cup {t}]
    /\ stpc' = [stpc EXCEPT ![t] = "read"]
    /\ UNCHANGED <<statsReporters, stcall, reporters, stlog>>
    /\ UNCHANGED <<lres, resVars, sessVars, meterVars, tunVars>>

\* reporter := statsReporters[guid]
MapRead(t) ==
    /\ stpc[t] = "read"
    /\ LET rep == MapGet(statsReporters, stcall[t].guid)
       IN  /\ stcall' = [stcall EXCEPT ![t].reporter = rep]
           /\ stlog' = Append(stlog, [StatEntry("get", stcall[t].guid, rep) EXCEPT
                                          !.inner = stcall[t].op # "get"])
    /\ stpc' = [stpc EXCEPT ![t] = "runlock"]
    /\ UNCHANGED <<statsReporters, statsReportersMu, reporters>>
    /\ UNCHANGED <<lres, resVars, sessVars, meterVars, tunVars>>

\* statsReportersMu.RUnlock() and the return of getStatsReporter: a lookup
\* is over, a dispatch goes on to the callback if the reporter is not nil
MuRUnlock(t) ==
    /\ stpc[t] = "runlock"
    /\ statsReportersMu' = [statsReportersMu EXCEPT !.r = @ \ {t}]
    /\ IF stcall[t].op = "get"
       THEN /\ stpc' = [stpc EXCEPT ![t] = "idle"]
            /\ stcall' = [stcall EXCEPT ![t] = NoCall]
            /\ UNCHANGED stlog
       ELSE IF stcall[t].reporter = NilReporter
       THEN /\ stpc' = [stpc EXCEPT ![t] = "idle"]
            /\ stcall' = [stcall EXCEPT ![t] = NoCall]
            /\ stlog' = Append(stlog, stcall[t])
       ELSE /\ stpc' = [stpc EXCEPT ![t] = "callback"]
            /\ UNCHANGED <<stcall, stlog>>
    /\ UNCHANGED <<statsReporters, reporters>>
    /\ UNCHANGED <<lres, resVars, sessVars, meterVars, tunVars>>

\* the callback of a dispatch that invokes the reporter twice
Callback_Twice(t) ==
    /\ stpc[t] = "callback"
    /\ LET c   == stcall[t]
           id  == c.reporter
           one == OnPacket(reporters[id], id, c.args)
       IN  /\ reporters' = [reporters EXCEPT ![id] = OnPacket(one, id, c.args)]
           /\ stlog' = Append(stlog, [c EXCEPT !.cb = 2])
    /\ stpc' = [stpc EXCEPT ![t] = "idle"]
    /\ stcall' = [stcall EXCEPT ![t] = NoCall]
    /\ UNCHANGED <<statsReporters, statsReportersMu>>
    /\ UNCHANGED <<lres, resVars, sessVars, meterVars, tunVars>>

\* reporter.OnPacket, reporter.OnConnectionStart or reporter.OnConnectionEnd
\* with the arguments of the dispatch, and the return of the dispatch
Callback(t) ==
    /\ stpc[t] = "callback"
    /\ LET c  == stcall[t]
           id == c.reporter
       IN  /\ reporters' = [reporters EXCEPT ![id] =
                   IF c.op = "dispatchOnPacket" THEN OnPacket(@, id, c.args)
                   ELSE IF c.op = "dispatchOnConnectionStart" THEN OnConnectionStart(@, id, c.args)
                   ELSE OnConnectionEnd(@, id, c.args)]
           /\ stlog' = Append(stlog, [c EXCEPT !.cb = 1])
    /\ stpc' = [stpc EXCEPT ![t] = "idle"]
    /\ stcall' = [stcall EXCEPT ![t] = NoCall]
    /\ UNCHANGED <<statsReporters, statsReportersMu>>
    /\ UNCHANGED <<lres, resVars, sessVars, meterVars, tunVars>>

\* dispatchOnPacket(guid, protocol, direction, srcAddr, dstAddr, byteSize)
dispatchOnPacket(max, t, guid, protocol, direction, srcAddr, dstAddr, byteSize) ==
    GetCall(max, t, "dispatchOnPacket", guid,
            [protocol |-> protocol, direction |-> direction, srcAddr |-> srcAddr,
             dstAddr |-> dstAddr, byteSize |-> byteSize])

\* dispatchOnConnectionStart(guid, protocol, srcAddr, dstAddr)
dispatchOnConnectionStart(max, t, guid, protocol, srcAddr, dstAddr) ==
    GetCall(max, t, "dispatchOnConnectionStart", guid,
            [protocol |-> protocol, srcAddr |-> srcAddr, dstAddr |-> dstAddr])

\* dispatchOnConnectionEnd(guid, protocol, srcAddr, dstAddr)
dispatchOnConnectionEnd(max, t, guid, protocol, srcAddr, dstAddr) ==
    GetCall(max, t, "dispatchOnConnectionEnd", guid,
            [protocol |-> protocol, srcAddr |-> srcAddr, dstAddr |-> dstAddr])

(* ------------- realisticStatsReporter.OnPacket, step by step ----------- *)

\* OnPacket(protocol, direction, srcAddr, dstAddr, byteSize): the call and
\* connID := normalizeConnID(srcAddr, dstAddr, protocol)
OnPacketCall(t, protocol, direction, srcAddr, dstAddr, byteSize) ==
    /\ mpc[t] = "idle"
    /\ mhist.calls < MaxPackets
    /\ mcall' = [mcall EXCEPT ![t] =
                    [op |-> "OnPacket", connID |-> normalizeConnID(srcAddr, dstAddr, protocol),
                     direction |-> direction, byteSize |-> byteSize, meter |-> 0]]
    /\ mpc' = [mpc EXCEPT ![t] = "m_rlock"]
    /\ mhist' = [mhist EXCEPT !.calls = @ + 1]
    /\ UNCHANGED <<metersMap, metersMu, meterObjs>>
    /\ UNCHANGED <<lres, resVars, sessVars, statVars, tunVars>>

\* getOrCreateMeter, fast path: r.metersMu.RLock()
MeterRLock(t) ==
    /\ mpc[t] = "m_rlock"
    /\ metersMu.w = 0
    /\ metersMu' = [metersMu EXCEPT !.r = @ \cup {t}]
    /\ mpc' = [mpc EXCEPT ![t] = "m_check"]
    /\ UNCHANGED <<metersMap, meterObjs, mcall, mhist>>
    /\ UNCHANGED <<lres, resVars, sessVars, statVars, tunVars>>

\* meter, exists := r.meters[connID]
MeterCheck(t) ==
    /\ mpc[t] = "m_check"
    /\ mcall' = [mcall EXCEPT ![t].meter = IF mcall[t].connID \in DOMAIN metersMap
                                            THEN metersMap[mcall[t].connID] ELSE 0]
    /\ mpc' = [mpc EXCEPT ![t] = "m_runlock"]
    /\ UNCHANGED <<metersMap, metersMu, meterObjs, mhist>>
    /\ UNCHANGED <<lres, resVars, sessVars, statVars, tunVars>>

\* r.metersMu.RUnlock(): a meter that exists is returned, else the slow path
MeterRUnlock(t) ==
    /\ mpc[t] = "m_runlock"
    /\ metersMu' = [metersMu EXCEPT !.r = @ \ {t}]
    /\ mpc' = [mpc EXCEPT ![t] = IF mcall[t].meter # 0 THEN "m_add" ELSE "m_lock"]
    /\ mhist' = [mhist EXCEPT !.slow = IF mcall[t].meter # 0 THEN @ ELSE @ + 1]
    /\ UNCHANGED <<metersMap, meterObjs, mcall>>
    /\ UNCHANGED <<lres, resVars, sessVars, statVars, tunVars>>

\* slow path: r.metersMu.Lock()
MeterLock(t) ==
    /\ mpc[t] = "m_lock"
    /\ metersMu.w = 0
    /\ metersMu.r = {}
    /\ metersMu' = [metersMu EXCEPT !.w = t]
    /\ mpc' = [mpc EXCEPT ![t] = "m_create"]
    /\ UNCHANGED <<metersMap, meterObjs, mcall, mhist>>
    /\ UNCHANGED <<lres, resVars, sessVars, statVars, tunVars>>

\* a connectionMeter just allocated for connID
NewObj(connID) == [connID |-> connID, rxBytes |-> 0, txBytes |-> 0]

\* MeterCreate without the second check: the meter is created whatever the
\* map holds by now
MeterCreate_NoSecondCheck(t) ==
    /\ mpc[t] = "m_create"
    /\ meterObjs' = Append(meterObjs, NewObj(mcall[t].connID))
    /\ metersMap' = MapSet(metersMap, mcall[t].connID, Len(meterObjs) + 1)
    /\ mcall' = [mcall EXCEPT ![t].meter = Len(meterObjs) + 1]
    /\ mpc' = [mpc EXCEPT ![t] = "m_unlock"]
    /\ UNCHANGED <<metersMu, mhist>>
    /\ UNCHANGED <<lres, resVars, sessVars, statVars, tunVars>>

\* the double check under the write lock: a meter that exists by now is
\* returned, else meter := &connectionMeter{...}; r.meters[connID] = meter
MeterCreate(t) ==
    /\ mpc[t] = "m_create"
    /\ IF mcall[t].connID \in DOMAIN metersMap
       THEN /\ mcall' = [mcall EXCEPT ![t].meter = metersMap[mcall[t].connID]]
            /\ UNCHANGED <<metersMap, meterObjs>>
       ELSE /\ meterObjs' = Append(meterObjs, NewObj(mcall[t].connID))
            /\ metersMap' = MapSet(metersMap, mcall[t].connID, Len(meterObjs) + 1)
            /\ mcall' = [mcall EXCEPT ![t].meter = Len(meterObjs) + 1]
    /\ mpc' = [mpc EXCEPT ![t] = "m_unlock"]
    /\ UNCHANGED <<metersMu, mhist>>
    /\ UNCHANGED <<lres, resVars, sessVars, statVars, tunVars>>

\* the deferred r.metersMu.Unlock()
MeterUnlock(t) ==
    /\ mpc[t] = "m_unlock"
    /\ metersMu' = [metersMu EXCEPT !.w = 0]
    /\ mpc' = [mpc EXCEPT ![t] = "m_add"]
    /\ UNCHANGED <<metersMap, meterObjs, mcall, mhist>>
    /\ UNCHANGED <<lres, resVars, sessVars, statVars, tunVars>>

\* meter.rxBytes.Add(int64(byteSize)) or meter.txBytes.Add(int64(byteSize)),
\* and the return of OnPacket
MeterAdd(t) ==
    /\ mpc[t] = "m_add"
    /\ LET c == mcall[t]
       IN  /\ meterObjs' =
                 IF c.direction = "rx"
                 THEN [meterObjs EXCEPT ![c.meter].rxBytes = @ + c.byteSize]
                 ELSE IF c.direction = "tx"
                 THEN [meterObjs EXCEPT ![c.meter].txBytes = @ + c.byteSize]
                 ELSE meterObjs
           /\ mhist' = [mhist EXCEPT !.returned = @ + 1,
                                     !.rx = IF c.direction = "rx" THEN @ + c.byteSize ELSE @,
                                     !.tx = IF c.direction = "tx" THEN @ + c.byteSize ELSE @]
    /\ mpc' = [mpc EXCEPT ![t] = "idle"]
    /\ mcall' = [mcall EXCEPT ![t] = NoCall]
    /\ UNCHANGED <<metersMap, metersMu>>
    /\ UNCHANGED <<lres, resVars, sessVars, statVars, tunVars>>

\* the steps of the registry calls in progress
StatSteps ==
    \/ \E t \in Threads : MuLock(t)
    \/ \E t \in Threads : MapWrite(t)
    \/ \E t \in Threads : MuUnlock(t)
    \/ \E t \in Threads : MuRLock(t)
    \/ \E t \in Threads : MapRead(t)
    \/ \E t \in Threads : MuRUnlock(t)

(* --------------------------- specifications ---------------------------- *)

\* StartKeepalive with the intervals ivs
StartNext(ivs) ==
    \/ \E t \in Threads, iv \in ivs : StartKeepalive(t, iv)
    \/ \E t \in Threads : OnceDo(t)
    \/ \E t \in Threads : MakeStop(t)
    \/ \E t \in Threads : GoLoop(t)

\* the keepalive loop's write of one frame
KaWriteNext ==
    \/ \E i \in LoopIds : KaLock(i)
    \/ \E i \in LoopIds : KaHeader(i)
    \/ \E i \in LoopIds : KaData(i)
    \/ \E i \in LoopIds : KaUnlock(i)

\* StartKeepalive and the loop it starts, with the intervals ivs
KeepaliveNext(ivs) ==
    \/ StartNext(ivs)
    \/ \E i \in LoopIds : KaTick(i)
    \/ KaWriteNext

\* Close, and the loop's reaction to it
CloseNext ==
    \/ \E t \in Threads : Close(t)
    \/ \E t \in Threads : CloseNilTest(t)
    \/ \E t \in Threads : CloseSelect(t)
    \/ \E t \in Threads : CloseStop(t)
    \/ \E t \in Threads : CloseConn(t)
    \/ \E i \in LoopIds : KaStopped(i)

\* WriteTo and Write with payloads bs to the addresses as
WriterNext(bs, as) ==
    \/ \E t \in Threads, b \in bs, a \in as : WriteTo(t, b, a)
    \/ \E t \in Threads, b \in bs : Write(t, b)
    \/ \E t \in Threads : WriteLock(t)
    \/ \E t \in Threads : WriteHeader(t)
    \/ \E t \in Threads : WriteData(t)
    \/ \E t \in Threads : WriteUnlock(t)

\* ReadFrom on the reading end of the stream
ReaderNext == \E n \in 1..MaxBuf : ReadFrom(n)

\* a connection made by UDPTunClientConn with a fixed target
InitConnected == Init /\ taddr = AppAddr

\* the connection's life: StartKeepalive, the keepalive loop and Close
Next == KeepaliveNext(Intervals) \/ CloseNext

Spec == Init /\ [][Next]_vars

\* concurrent writers, the keepalive loop and Close on one connection
NextWrite == KeepaliveNext({1}) \/ CloseNext \/ WriterNext({<<7>>}, {AppAddr})

SpecWrite == InitConnected /\ [][NextWrite]_vars

\* writers and the keepalive loop on one end, ReadFrom on the other
NextTunnel == KeepaliveNext({1}) \/ WriterNext(Payloads, {AppAddr}) \/ ReaderNext

SpecTunnel == InitConnected /\ [][NextTunnel]_vars

\* writers alone, to destinations that parse and to one that does not
NextParse == WriterNext({<<7>>}, Addrs)

SpecParse == Init /\ [][NextParse]_vars

\* writers to destinations that parse and to one that does not, while Close
\* closes the stream of a connection without keepalive
NextCount ==
    \/ \E t \in Threads : Close(t)
    \/ \E t \in Threads : CloseNilTest(t)
    \/ \E t \in Threads : CloseConn(t)
    \/ WriterNext({<<7>>}, Addrs)

SpecCount == Init /\ [][NextCount]_vars

\* payload lengths: the short ones, and those around the 16-bit limit
DatagramLens == 0..MaxLen \cup (RsvMod - LenSpan)..(RsvMod + LenSpan)

\* writeToLocked builds one datagram, of any of these lengths
NextDatagram == \E n \in DatagramLens : BuildDatagram(n)

SpecDatagram == Init /\ [][NextDatagram]_vars

\* StartKeepalive, Close and the loop, with a ticker that keeps firing
NextLive ==
    \/ StartNext({1})
    \/ \E i \in LoopIds : KaTickLive(i)
    \/ KaWriteNext
    \/ CloseNext

\* the steps of the calls and of the loop that the scheduler runs sooner or
\* later: those of a StartKeepalive or a Close in progress, the loop's
\* receive from the closed stop channel, its write, and the tick that comes
\* once the stream is closed
LiveSteps ==
    \/ \E t \in Threads : OnceDo(t) \/ MakeStop(t) \/ GoLoop(t)
    \/ \E t \in Threads : CloseNilTest(t) \/ CloseSelect(t) \/ CloseStop(t) \/ CloseConn(t)
    \/ \E i \in LoopIds : KaStopped(i)
    \/ KaWriteNext
    \/ \E i \in LoopIds : connClosed /\ KaTickLive(i)

SpecLive == Init /\ [][NextLive]_vars /\ WF_vars(LiveSteps)

\* a keepalive loop whose ticker goes on firing while Close closes the stream
\* under it and the application writes
NextFail ==
    \/ \E i \in LoopIds : KaTickWithin(i, MaxLateTicks)
    \/ KaWriteNext
    \/ CloseNext
    \/ WriterNext({<<7>>}, {AppAddr})

\* a connection with a fixed target on which StartKeepalive(1) has returned
InitStarted ==
    /\ ResInit
    /\ StoreInit
    /\ StatsInit
    /\ MeterInit
    /\ taddr = AppAddr
    /\ kaOnce = "done"
    /\ kaStop = "open"
    /\ mu = 0
    /\ connClosed = FALSE
    /\ wire = <<>>
    /\ loops = <<[pc |-> "select", interval |-> 1, afterClose |-> FALSE, li |-> 0]>>
    /\ pc = [t \in Threads |-> "idle"]
    /\ arg = [t \in Threads |-> NoArg]
    /\ panicked = FALSE
    /\ rpos = 0
    /\ rcv = <<>>
    /\ dgram = NoDatagram
    /\ hist = [HistInit EXCEPT !.calls = 1, !.kaMade = 1, !.skReturned = 1,
                               !.skAsked = {1}, !.onceInterval = 1]

SpecFail == InitStarted /\ [][NextFail]_vars

\* the steps of the Close calls in progress
CloseSteps ==
    \E t \in Threads : CloseNilTest(t) \/ CloseSelect(t) \/ CloseStop(t) \/ CloseConn(t)

\* the steps of the writes in progress, application's and keepalive's, and the
\* loop's receive from the stop channel
WriteSteps ==
    \/ \E t \in Threads : WriteLock(t) \/ WriteHeader(t) \/ WriteData(t) \/ WriteUnlock(t)
    \/ KaWriteNext
    \/ \E i \in LoopIds : KaStopped(i)

\* a connection with its keepalive loop running, writers and Close: a
\* Close in progress always goes on, while a write goes on for sure only once
\* the stream is closed: on an open stream it can stay blocked, lock held
NextBlocked ==
    \/ Close(1)
    \/ CloseSteps
    \/ \E t \in Threads : WriteTo(t, <<7>>, AppAddr)
    \/ \E i \in LoopIds : KaTick(i)
    \/ WriteSteps

SpecBlocked ==
    InitStarted /\ [][NextBlocked]_vars /\ WF_vars(CloseSteps) /\ WF_vars(connClosed /\ WriteSteps)

\* the steps of the resolve calls in progress, the lookups answering with the
\* results rs
ResolveSteps(rs) ==
    \/ \E t \in Threads : CacheLoad(t)
    \/ \E t \in Threads : CacheCheck(t)
    \/ \E t \in Threads : CacheDelete(t)
    \/ \E t \in Threads : LookupIP(t, rs)
    \/ \E t \in Threads : CacheStore(t)

\* resolve called with the addresses as and the marks and context states mcs,
\* the lookups answering with the results rs
ResolveNext(as, mcs, rs) ==
    \/ \E t \in Threads, a \in as, mc \in mcs : Resolve(t, a, mc[1], mc[2])
    \/ ResolveSteps(rs)

\* a lookup that fails and one that answers with two addresses
CacheResults == {[err |-> "lookup", ips |-> <<>>],
                 [err |-> "nil", ips |-> <<<<2, 2, 2, 2>>, <<1, 1, 1, 1>>>>]}

\* a resolve-only run starts from the program's initial state
InitResolve == Init /\ taddr = <<>>

\* the cache over time: resolve calls for one host, with and without mark and
\* cancelled context, the clock moving to just before and to the end of an
\* entry's life
NextCache ==
    \/ ResolveNext({HostAddr}, {<<0, FALSE>>, <<2, TRUE>>}, CacheResults)
    \/ \E d \in {TTL - 1, TTL} : Advance(d)

SpecCache == InitResolve /\ [][NextCache]_vars

\* a lookup that answers with one address
OneResult == {[err |-> "nil", ips |-> <<<<1, 1, 1, 1>>>>]}

\* literal IP addresses, with and without a port, resolved next to a host name
NextLiteral ==
    \/ ResolveNext({AppAddr, IPNoPort, HostAddr}, {<<2, FALSE>>}, OneResult)
    \/ Advance(TTL)

SpecLiteral == InitResolve /\ [][NextLiteral]_vars

\* the addresses of the cache invariant: a host name with a port, a literal
\* IP with a port, and a literal IP without one, which does not split
InvariantAddrs == {HostAddr, AppAddr, IPNoPort}

\* resolve calls of these addresses over time, the lookups failing, answering
\* with nothing or with two addresses
NextInvariant ==
    \/ ResolveNext(InvariantAddrs, {<<0, FALSE>>}, {r \in LookupResults : Len(r.ips) # 1})
    \/ Advance(TTL)

SpecInvariant == InitResolve /\ [][NextInvariant]_vars

\* resolve calls of one host, enough of them for one call to be overtaken by
\* two others between its expiry test and its Delete
NextStale ==
    \/ \E t \in Threads : ResolveWithin(MaxStaleResolves, t, HostAddr, 0, FALSE)
    \/ ResolveSteps(OneResult)
    \/ Advance(TTL)

SpecStale == InitResolve /\ [][NextStale]_vars

\* lookups of one host that fail, answer with nothing or answer with an
\* address, the context cancelled while the call runs
NextLookup ==
    \/ ResolveNext({HostAddr}, {<<0, FALSE>>}, {r \in LookupResults : Len(r.ips) < 2})
    \/ \E t \in Threads : Cancel(t)
    \/ Advance(TTL)

\* lookups that open sockets, for calls with every mark
NextMark ==
    \/ ResolveNext({HostAddr}, Marks \X {FALSE}, OneResult)
    \/ \E t \in Threads : Dial(t)
    \/ Advance(TTL)

SpecMark == InitResolve /\ [][NextMark]_vars

SpecLookup == InitResolve /\ [][NextLookup]_vars

\* layered Resolve calls with every address, host mapper and resolver
NextLayered == \E a \in LayeredAddrs, hm \in HostMappers, r \in Resolvers : CallResolve(a, hm, r)

SpecLayered == InitResolve /\ [][NextLayered]_vars

\* the layered Resolve calls of a pass-through run: no address or one with
\* no port handed over with a host mapper and a resolver that both know an
\* answer, and a host name handed over with no resolver and a host mapper
\* that is absent or knows nothing
PassCalls ==
    LET mapped   == [set |-> TRUE, ips |-> <<<<1, 1, 1, 1>>>>]
        unmapped == [set |-> TRUE, ips |-> <<>>]
        nomapper == [set |-> FALSE, ips |-> <<>>]
        answers  == [set |-> TRUE, err |-> "nil", ips |-> <<<<3, 3, 3, 3>>>>]
        nor      == [set |-> FALSE, err |-> "nil", ips |-> <<>>]
    IN  {<<<<>>, mapped, answers>>, <<IPNoPort, mapped, answers>>,
         <<HostAddr, nomapper, nor>>, <<HostAddr, unmapped, nor>>}

\* addresses passed through next to a host name that is resolved and cached
NextPass ==
    \/ ResolveNext({<<>>, IPNoPort, HostAddr}, {<<0, FALSE>>}, OneResult)
    \/ Advance(TTL)
    \/ \E c \in PassCalls : CallResolve(c[1], c[2], c[3])

SpecPass == InitResolve /\ [][NextPass]_vars

\* goroutines calling Set, Get and Del on the one session store
NextStore ==
    \/ \E t \in Threads, k \in Keys, s \in Sessions : StoreCall(t, "Set", k, s)
    \/ \E t \in Threads, k \in Keys, op \in {"Get", "Del"} : StoreCall(t, op, k, EmptySession)
    \/ \E t \in Threads : Set(t)
    \/ \E t \in Threads : Get(t)
    \/ \E t \in Threads : Del(t)

SpecStore == InitResolve /\ [][NextStore]_vars

\* the guids in use: the empty one and two services
Guids == {"", "g", "h"}

\* one goroutine registers, unregisters and looks up, one call after the other
NextRegistry ==
    \/ \E g \in Guids, r \in MockReporters \cup {NilReporter} : RegisterStatsReporter(1, g, r)
    \/ \E g \in Guids : UnregisterStatsReporter(1, g)
    \/ \E g \in Guids : getStatsReporter(1, g)
    \/ StatSteps

SpecRegistry == InitResolve /\ [][NextRegistry]_vars

\* the two ends of the metered connection
SrcAddr == "10.0.0.1:12345"

DstAddr == "8.8.8.8:53"

\* goroutines that register, look up, dispatch and unregister under one guid,
\* each with a reporter of its own
NextConcurrent ==
    \/ \E t \in Threads : RegisterStatsReporter(t, "g", IF t = 1 THEN "M1" ELSE "M2")
    \/ \E t \in Threads : getStatsReporter(t, "g")
    \/ \E t \in Threads : dispatchOnPacket(MaxStatCalls, t, "g", "udp", "rx", SrcAddr, DstAddr, 100)
    \/ \E t \in Threads : UnregisterStatsReporter(t, "g")
    \/ StatSteps
    \/ \E t \in Threads : Callback(t)

SpecConcurrent == InitResolve /\ [][NextConcurrent]_vars

\* goroutines that dispatch packets and connection events for a guid whose
\* reporter is registered and unregistered meanwhile, and for a guid that has
\* no reporter
NextDispatch ==
    \/ \E t \in Threads : RegisterStatsReporter(t, "g", "M1")
    \/ \E t \in Threads : UnregisterStatsReporter(t, "g")
    \/ \E t \in Threads, g \in {"g", "h"} :
          dispatchOnPacket(MaxStatCalls, t, g, "udp", "rx", SrcAddr, DstAddr, 1)
    \/ \E t \in Threads :
          dispatchOnPacket(MaxStatCalls, t, "g", "udp", "tx", DstAddr, SrcAddr, 2)
    \/ \E t \in Threads :
          dispatchOnConnectionStart(MaxStatCalls, t, "g", "udp", SrcAddr, DstAddr)
    \/ \E t \in Threads :
          dispatchOnConnectionEnd(MaxStatCalls, t, "g", "udp", SrcAddr, DstAddr)
    \/ StatSteps
    \/ \E t \in Threads : Callback(t)

SpecDispatch == InitResolve /\ [][NextDispatch]_vars

\* one goroutine meters one connection with the realistic reporter: it
\* registers the reporter, starts the connection, dispatches the packets
\* received as src -> dst and the packets sent as dst -> src, and ends it
NextMeter ==
    \/ RegisterWithin(MaxMeterCalls, 1, "g", RealisticReporter)
    \/ dispatchOnConnectionStart(MaxMeterCalls, 1, "g", "udp", SrcAddr, DstAddr)
    \/ \E n \in {256, 512} :
          dispatchOnPacket(MaxMeterCalls, 1, "g", "udp", "rx", SrcAddr, DstAddr, n)
    \/ dispatchOnPacket(MaxMeterCalls, 1, "g", "udp", "tx", DstAddr, SrcAddr, 1024)
    \/ dispatchOnConnectionEnd(MaxMeterCalls, 1, "g", "udp", SrcAddr, DstAddr)
    \/ StatSteps
    \/ \E t \in Threads : Callback(t)

SpecMeter == InitResolve /\ [][NextMeter]_vars

\* two connections, each with its source and its destination
Connections == {<<SrcAddr, DstAddr>>, <<"10.0.0.2:23456", "1.1.1.1:53">>}

\* one goroutine meters the connections with the realistic reporter: for each
\* it starts the connection, dispatches what is received as src -> dst and
\* what is sent as dst -> src, and ends the connection
NextConns ==
    \/ RegisterWithin(MaxMeterCalls, 1, "g", RealisticReporter)
    \/ \E c \in Connections :
          dispatchOnConnectionStart(MaxMeterCalls, 1, "g", "udp", c[1], c[2])
    \/ \E c \in Connections :
          dispatchOnPacket(MaxMeterCalls, 1, "g", "udp", "rx", c[1], c[2], 100)
    \/ \E c \in Connections :
          dispatchOnPacket(MaxMeterCalls, 1, "g", "udp", "tx", c[2], c[1], 200)
    \/ \E c \in Connections :
          dispatchOnConnectionEnd(MaxMeterCalls, 1, "g", "udp", c[1], c[2])
    \/ StatSteps
    \/ \E t \in Threads : Callback(t)

SpecConns == InitResolve /\ [][NextConns]_vars

\* goroutines call OnPacket of one realistic reporter for one connection
\* that was never started, in both directions
NextPackets ==
    \/ \E t \in Threads, p \in {"udp", "UDP"}, d \in {"rx", "tx"} :
          OnPacketCall(t, p, d, SrcAddr, DstAddr, 100)
    \/ \E t \in Threads : MeterRLock(t)
    \/ \E t \in Threads : MeterCheck(t)
    \/ \E t \in Threads : MeterRUnlock(t)
    \/ \E t \in Threads : MeterLock(t)
    \/ \E t \in Threads : MeterCreate(t)
    \/ \E t \in Threads : MeterUnlock(t)
    \/ \E t \in Threads : MeterAdd(t)

SpecPackets == InitResolve /\ [][NextPackets]_vars

(* ------------------------ frames from a remote peer -------------------- *)

\* the octets of one frame with fragment octet frag
FrameBytes(frag, a, b) == EncodeHeader(Len(b) % RsvMod, frag, Parsed[a]) \o b

\* fragment octets a remote peer may send
Frags == 0..255

\* frames a remote peer may send with the fragment octets fs
PeerFrames(fs) == [frag : fs, addr : {KaAddr, AppAddr}, payload : Payloads]

\* A stream as a remote peer wrote it: n frames, length fields as the frame
\* writer sets them, the first frame with any fragment octet.
RECURSIVE PeerStreams(_)
PeerStreams(n) ==
    IF n = 1 THEN {<<f>> : f \in PeerFrames(Frags)}
    ELSE {Append(s, f) : s \in PeerStreams(n - 1), f \in PeerFrames({TunFrag})}

RECURSIVE StreamBytes(_)
StreamBytes(fs) ==
    IF fs = <<>> THEN <<>>
    ELSE FrameBytes(fs[1].frag, fs[1].addr, fs[1].payload) \o StreamBytes(Tail(fs))

\* the log entries of the frames of a peer's stream
RECURSIVE PeerLog(_, _, _)
PeerLog(fs, i, off) ==
    IF i > Len(fs) THEN <<>>
    ELSE <<[id |-> i, w |-> 0, payload |-> fs[i].payload, addr |-> fs[i].addr,
            frag |-> fs[i].frag, off |-> off,
            sent |-> HeaderLen + Len(fs[i].payload), status |-> "ok",
            n |-> Len(fs[i].payload), before |-> {}]>>
         \o PeerLog(fs, i + 1, off + HeaderLen + Len(fs[i].payload))

\* a connection whose stream holds what a remote peer wrote
InitFrame ==
    /\ ResInit
    /\ StoreInit
    /\ StatsInit
    /\ MeterInit
    /\ taddr = <<>>
    /\ kaOnce = "fresh"
    /\ kaStop = "nil"
    /\ mu = 0
    /\ connClosed = FALSE
    /\ loops = <<>>
    /\ pc = [t \in Threads |-> "idle"]
    /\ arg = [t \in Threads |-> NoArg]
    /\ panicked = FALSE
    /\ rpos = 0
    /\ rcv = <<>>
    /\ dgram = NoDatagram
    /\ \E fs \in UNION {PeerStreams(n) : n \in 1..MaxFrames} :
         /\ wire = StreamBytes(fs)
         /\ hist = [HistInit EXCEPT !.log = PeerLog(fs, 1, 0)]

\* ReadFrom on a stream a remote peer wrote
NextFrame == ReaderNext

SpecFrame == InitFrame /\ [][NextFrame]_vars

(* ------------------------------ properties ----------------------------- *)

LogIds == 1..Len(hist.log)

RcvIds == 1..Len(rcv)

\* the octets of a write's frame
EntryFrame(e) == FrameBytes(e.frag, e.addr, e.payload)

\* the octets of a write's frame that have reached the stream
Emitted(e) == Take(EntryFrame(e), e.sent)

\* the octets of the writes of a log, in the order of the log
RECURSIVE LogBytes(_)
LogBytes(l) == IF l = <<>> THEN <<>> ELSE Emitted(Head(l)) \o LogBytes(Tail(l))

\* a write made by the keepalive loop
IsTick(e) == e.w \notin Threads

\* C1: as long as no two Close calls overlap, Close never panics, the stop
\* channel is closed at most once, and every Close call has called Conn.Close
\* and returned what it returned.
C1_SequentialCloseIdempotent ==
    ~hist.closeOverlap =>
        /\ ~panicked
        /\ hist.kaCloseCount <= 1
        /\ hist.closeRets = hist.connRets

\* two Close calls, one after the other, on a connection with a keepalive loop
C1_Witness ==
    /\ ~hist.closeOverlap
    /\ Len(hist.closeRets) >= 2
    /\ hist.kaCloseCount = 1
    /\ Len(loops) = 1

\* C2: on a connection whose keepalive has been started, Close calls running
\* at the same time close the stop channel once and never panic.
C2_ConcurrentCloseOnce ==
    kaStop # "nil" => (~panicked /\ hist.kaCloseCount <= 1)

\* C3: any number of StartKeepalive calls with a positive interval start one
\* loop with one stop channel; once a call has returned the loop exists, and
\* its interval is that of the call that ran the Once body.
C3_OneKeepaliveLoop ==
    /\ Len(loops) <= 1
    /\ hist.kaMade <= 1
    /\ hist.skReturned > 0 => (Len(loops) = 1 /\ hist.kaMade = 1)
    /\ Len(loops) = 1 => loops[1].interval = hist.onceInterval

\* two StartKeepalive calls with different positive intervals have returned
C3_Witness ==
    /\ hist.skReturned >= 2
    /\ Cardinality(hist.skAsked) >= 2
    /\ Len(loops) = 1

\* C4: a keepalive loop is started at most once and only while the connection
\* is open: no loop is started by a StartKeepalive called after a Close
\* returned, and a closed connection stays closed.
C4_NoKeepaliveAfterClose ==
    /\ Len(loops) <= 1
    /\ \A i \in LoopIds : ~loops[i].afterClose
    /\ hist.closeRets # <<>> => connClosed

\* C5: the stream is the concatenation of the writes' frames in the order the
\* lock was taken, and every frame the reading end decodes is the frame of one
\* write: its address, its payload (as far as the buffer goes), its octets.
C5_WholeFramesDecodeAsWritten ==
    /\ wire = LogBytes(hist.log)
    /\ \A k \in RcvIds :
         \E i \in LogIds :
            /\ hist.log[i].off = rcv[k].off
            /\ rcv[k].addr = hist.log[i].addr
            /\ rcv[k].data = Take(hist.log[i].payload, rcv[k].buf)
            /\ rcv[k].used = HeaderLen + Len(hist.log[i].payload)

\* C6: the stream holds the writes' octets in the order the writers took the
\* lock, and a write that returned before another was called took the lock
\* first and has its frame earlier on the stream.
C6_WritesKeepOrder ==
    /\ wire = LogBytes(hist.log)
    /\ \A i, j \in LogIds :
         /\ i < j => hist.log[i].off + hist.log[i].sent <= hist.log[j].off
         /\ hist.log[i].id \in hist.log[j].before =>
               /\ i < j
               /\ hist.log[i].off + hist.log[i].sent <= hist.log[j].off

\* two frames on the stream, written by different goroutines, the second
\* write called after the first returned
C6_Witness ==
    \E i, j \in LogIds :
        /\ hist.log[i].id \in hist.log[j].before
        /\ hist.log[i].w # hist.log[j].w
        /\ hist.log[i].status = "ok"
        /\ hist.log[j].status = "ok"
        /\ hist.log[i].payload # <<>>

\* C7: the frame of WriteTo(P, A), read with a buffer of at least len(P)
\* octets, comes back as address A, n = len(P) and payload P.
C7_RoundTrip ==
    \A k \in RcvIds, i \in LogIds :
        (/\ ~IsTick(hist.log[i])
         /\ hist.log[i].status = "ok"
         /\ hist.log[i].off = rcv[k].off
         /\ rcv[k].buf >= Len(hist.log[i].payload))
        => /\ rcv[k].err = "nil"
           /\ rcv[k].addr = hist.log[i].addr
           /\ rcv[k].n = Len(hist.log[i].payload)
           /\ rcv[k].data = hist.log[i].payload

\* C8: every tick puts one frame on the stream, addressed to 127.0.0.1:1 with
\* fragment octet 0xFF, length 0 and no payload, and the reading end decodes
\* it as that frame and takes no octet of what follows it.
C8_KeepaliveFrameDecodes ==
    /\ Cardinality({i \in LogIds : IsTick(hist.log[i])}) <= hist.ticks
    /\ \A i \in LogIds :
         (IsTick(hist.log[i]) /\ hist.log[i].status = "ok") =>
            SubSeq(wire, hist.log[i].off + 1, hist.log[i].off + hist.log[i].sent)
               = EncodeHeader(0, TunFrag, Parsed[KaAddr])
    /\ \A k \in RcvIds, i \in LogIds :
         (IsTick(hist.log[i]) /\ hist.log[i].status = "ok"
            /\ hist.log[i].off = rcv[k].off)
         => /\ rcv[k].err = "nil"
            /\ rcv[k].addr = KaAddr
            /\ rcv[k].frag = TunFrag
            /\ rcv[k].n = 0
            /\ rcv[k].used = HeaderLen

\* C9: ReadFrom returns an error and no payload for every frame whose
\* fragment octet is not 0xFF.
C9_RejectsOtherFragments ==
    \A k \in RcvIds : rcv[k].frag # TunFrag => (rcv[k].err # "nil" /\ rcv[k].n = 0)

\* C10: ReadFrom of a frame returns no error and takes the whole frame and
\* nothing else from the stream; n is len(b) and b the first len(b) payload
\* octets when the payload is longer than b, and n is the payload length and
\* b[:n] the payload when it fits.
C10_TruncatesToBuffer ==
    \A k \in RcvIds, i \in LogIds :
        hist.log[i].off = rcv[k].off =>
            /\ rcv[k].err = "nil"
            /\ rcv[k].used = HeaderLen + Len(hist.log[i].payload)
            /\ IF Len(hist.log[i].payload) > rcv[k].buf
               THEN rcv[k].n = rcv[k].buf
                    /\ rcv[k].data = Take(hist.log[i].payload, rcv[k].buf)
               ELSE rcv[k].n = Len(hist.log[i].payload)
                    /\ rcv[k].data = hist.log[i].payload

\* a write whose destination string does not parse into wire form
BadWrite(e) == ~Parsed[e.addr].ok

\* C11: a WriteTo whose destination cannot be parsed returns the parse error
\* with n = 0 and puts no octet on the stream: the stream is as long when the
\* next writer takes the lock as it was when this one took it.
C11_ParseErrorWritesNothing ==
    \A i \in LogIds :
        BadWrite(hist.log[i]) =>
            /\ hist.log[i].status \in {"writing", "parse"}
            /\ hist.log[i].id \in hist.returned => hist.log[i].status = "parse"
            /\ hist.log[i].n = 0
            /\ hist.log[i].sent = 0
            /\ IF i < Len(hist.log)
               THEN hist.log[i + 1].off = hist.log[i].off
               ELSE Len(wire) = hist.log[i].off

\* a WriteTo with an unparsable destination has returned on a stream that
\* already held a frame, and another frame was written after it
C11_Witness ==
    \E i \in LogIds :
        /\ BadWrite(hist.log[i])
        /\ hist.log[i].id \in hist.returned
        /\ hist.log[i].payload # <<>>
        /\ hist.log[i].off > 0
        /\ Len(wire) > hist.log[i].off

\* a keepalive write that failed
FailedTick(e) == IsTick(e) /\ e.status = "closed"

\* C12: once a keepalive write has failed, its loop writes no further frame
\* and ends with the lock released; the step that ends the loop changes
\* nothing an application call sees, Close returns what Conn.Close
\* returned, and an application write fails only on a closed stream.
C12_FailedKeepaliveEndsLoop ==
    /\ [](\A i \in LogIds :
            FailedTick(hist.log[i]) =>
                /\ \A j \in LogIds : j > i => hist.log[j].w # hist.log[i].w
                /\ loops[hist.log[i].w - NThreads].pc \in {"k_unlock", "done"}
                /\ loops[hist.log[i].w - NThreads].pc = "done" => mu # hist.log[i].w)
    /\ [](hist.closeRets = hist.connRets)
    /\ [](\A i \in LogIds :
            (~IsTick(hist.log[i]) /\ hist.log[i].status \notin {"ok", "writing"})
                => connClosed)
    /\ [][\A l \in LoopIds :
            (loops[l].pc = "k_unlock" /\ loops'[l].pc # "k_unlock") =>
                /\ mu' = 0
                /\ UNCHANGED <<pc, arg, connClosed, wire, kaStop, panicked>>
                /\ hist'.closeRets = hist.closeRets]_vars

\* a keepalive write failed with ticks still to come, the loop has ended, and
\* an application write took the lock after it and returned
C12_Witness ==
    \E i, j \in LogIds :
        /\ FailedTick(hist.log[i])
        /\ loops[hist.log[i].w - NThreads].pc = "done"
        /\ hist.ticks < MaxLateTicks
        /\ j > i
        /\ ~IsTick(hist.log[j])
        /\ hist.log[j].id \in hist.returned

\* goroutines that have made a resolve call
Callers == {t \in Threads : rcall[t] # NoCall}

\* the call of goroutine t loaded a cache entry and found it valid
CacheHit(t) ==
    /\ rcall[t].loaded
    /\ rcall[t].checkAt >= 0
    /\ rcall[t].checkAt < rcall[t].entry.expiresAt

\* the call of goroutine t loaded a cache entry and found it expired
CacheExpired(t) ==
    /\ rcall[t].loaded
    /\ rcall[t].checkAt >= 0
    /\ rcall[t].checkAt >= rcall[t].entry.expiresAt

\* C13: a resolve that finds a cache entry for the host and the clock before
\* its expiry returns cachedIP:port with the port of the call and a nil error,
\* without a lookup, whatever its mark and the state of its context.
C13_CacheHitNoLookup ==
    \A t \in Callers :
        CacheHit(t) =>
            /\ rcall[t].done
            /\ rcall[t].ret = JoinHostPort(rcall[t].entry.ip, SplitHostPort(rcall[t].addr).port)
            /\ rcall[t].err = "nil"
            /\ rcall[t].lookups = 0
            /\ ~rcall[t].evicted
            /\ ~rcall[t].stored

\* a call with a mark and a cancelled context was served from the cache a
\* minute before the entry's expiry
C13_Witness ==
    \E t \in Callers :
        /\ CacheHit(t)
        /\ rcall[t].done
        /\ rcall[t].canceled
        /\ rcall[t].mark # 0
        /\ rcall[t].checkAt = rcall[t].entry.expiresAt - 1

\* addr is a literal IP address, alone or followed by a port
IsLiteralIP(addr) ==
    \/ ParseIP(addr) # <<>>
    \/ SplitHostPort(addr).ok /\ ParseIP(SplitHostPort(addr).host) # <<>>

\* C14: resolve of a literal IP address, with or without a port, returns the
\* address as it was given and a nil error; the call finds no cache entry,
\* makes no lookup, evicts and stores nothing, and no cache key is ever a
\* literal IP.
C14_LiteralIPUnchanged ==
    /\ \A t \in Callers :
          IsLiteralIP(rcall[t].addr) =>
              /\ ~rcall[t].loaded
              /\ ~rcall[t].evicted
              /\ ~rcall[t].stored
              /\ rcall[t].lookups = 0
              /\ rpc[t] \in {"idle", "r_load"}
              /\ rcall[t].done => (rcall[t].ret = rcall[t].addr /\ rcall[t].err = "nil")
    /\ \A k \in DOMAIN ipCache : ParseIP(k) = <<>>

\* with a host name in the cache, a literal IP with a port and one without
\* have been resolved
C14_Witness ==
    /\ DOMAIN ipCache # {}
    /\ \E t, u \in Callers :
          /\ rcall[t].done /\ rcall[t].addr = AppAddr
          /\ rcall[u].done /\ rcall[u].addr = IPNoPort

\* C15: a resolve that finds the host's entry with the clock at or past its
\* expiry removes the host from the cache, makes exactly one lookup, and on
\* success stores the first address with expiry = store time + TTL and
\* returns it with the port of the call.
C15_ExpiredEntryOneLookup ==
    /\ [](\A t \in Callers :
            CacheExpired(t) =>
                /\ ~rcall[t].done => rpc[t] \in {"r_delete", "r_lookup", "r_store"}
                /\ rcall[t].evicted <=> rpc[t] # "r_delete"
                /\ rcall[t].lookups = IF rpc[t] \in {"r_delete", "r_lookup"} THEN 0 ELSE 1
                /\ (rcall[t].done /\ rcall[t].err = "nil") =>
                      /\ rcall[t].stored
                      /\ rcall[t].storedEntry = [ip |-> IPString(rcall[t].ips[1]),
                                                  expiresAt |-> rcall[t].storeAt + TTL]
                      /\ rcall[t].ret = JoinHostPort(IPString(rcall[t].ips[1]),
                                                     SplitHostPort(rcall[t].addr).port)
                /\ (rcall[t].done /\ rcall[t].err # "nil") => ~rcall[t].stored)
    /\ [][\A t \in Threads :
            (rpc[t] = "r_delete" /\ rpc'[t] # "r_delete") =>
                rcall[t].host \notin DOMAIN ipCache']_vars
    /\ [][\A t \in Threads :
            (rpc[t] = "r_store" /\ rpc'[t] # "r_store") =>
                ipCache'[rcall[t].host] = [ip |-> rcall[t].ip, expiresAt |-> now + TTL]]_vars

\* a call found the entry stored at time 0 expired at time TTL, looked the
\* host up and stored it again
C15_Witness ==
    \E t \in Callers :
        /\ CacheExpired(t)
        /\ rcall[t].checkAt = rcall[t].entry.expiresAt
        /\ rcall[t].done
        /\ rcall[t].stored
        /\ rcall[t].host \in DOMAIN ipCache
        /\ ipCache[rcall[t].host].expiresAt = rcall[t].entry.expiresAt + TTL

\* C16: a resolve that looked the host up and got a non-empty list returns
\* firstIP:port with the port of the call and has stored firstIP with expiry =
\* store time + TTL; and a resolve of the host that is called after such a
\* call returned and returns less than TTL after that store makes no lookup,
\* and returns the stored address unless the host was stored again meanwhile.
C16_LookupStoredThenHit ==
    \A t \in Callers :
        /\ (rcall[t].done /\ rcall[t].lookups > 0 /\ Len(rcall[t].ips) > 0) =>
              /\ rcall[t].err = "nil"
              /\ rcall[t].ret = JoinHostPort(IPString(rcall[t].ips[1]),
                                             SplitHostPort(rcall[t].addr).port)
              /\ rcall[t].stored
              /\ rcall[t].storedEntry = [ip |-> IPString(rcall[t].ips[1]),
                                          expiresAt |-> rcall[t].storeAt + TTL]
        /\ (/\ rcall[t].split
            /\ rcall[t].promised.at >= 0
            /\ IF rcall[t].done THEN rcall[t].retAt < rcall[t].promised.at + TTL
                                ELSE now < rcall[t].promised.at + TTL) =>
              /\ rcall[t].lookups = 0
              /\ rpc[t] \in {"idle", "r_load", "r_check"}
              /\ (rcall[t].done /\ rhist.lastStore[rcall[t].host] = rcall[t].promised) =>
                    rcall[t].ret = JoinHostPort(rcall[t].promised.ip,
                                                SplitHostPort(rcall[t].addr).port)

\* C17: a resolve whose lookup succeeds with an empty list returns an empty
\* address and the no-such-host error for its host, and stores nothing: the
\* step that returns leaves the cache as it is.
C17_EmptyAnswerNotFound ==
    /\ [](\A t \in Callers :
            (rcall[t].lookups > 0 /\ rcall[t].ips = <<>>
             /\ rcall[t].err \notin {"lookup", "canceled"}) =>
                /\ rcall[t].done
                /\ rcall[t].ret = <<>>
                /\ rcall[t].err = "nosuchhost"
                /\ rcall[t].host = SplitHostPort(rcall[t].addr).host
                /\ ~rcall[t].stored
                /\ rcall[t].lookups = 1)
    /\ [][\A t \in Threads :
            (rpc[t] = "r_lookup" /\ rpc'[t] = "idle") => ipCache' = ipCache]_vars

\* a lookup answered with an empty list and the call has returned, the host
\* not in the cache
C17_Witness ==
    \E t \in Callers :
        /\ rcall[t].done
        /\ rcall[t].err = "nosuchhost"
        /\ rcall[t].lookups = 1
        /\ rcall[t].host \notin DOMAIN ipCache

\* C18: every socket opened for the lookup of a call with a mark other than 0
\* carries that mark as its SO_MARK, and a socket of a call with mark 0 has
\* no mark set.
C18_SocketsCarryMark ==
    \A i \in 1..Len(socks) : socks[i].opt = socks[i].mark

\* C19: a resolve whose lookup fails, by a resolver error or by cancellation,
\* returns an empty address and that error after that one lookup, and stores
\* nothing: the step that returns leaves the cache as it is.
C19_LookupErrorNotCached ==
    /\ [](\A t \in Callers :
            /\ rcall[t].lookups <= 1
            /\ (rcall[t].done /\ rcall[t].err \in {"lookup", "canceled"}) =>
                  /\ rcall[t].ret = <<>>
                  /\ rcall[t].lookups = 1
                  /\ ~rcall[t].stored
            /\ rcall[t].err = "canceled" => rcall[t].canceled
            /\ (rcall[t].lookups = 1 /\ ~rcall[t].done) => rpc[t] = "r_store")
    /\ [][\A t \in Threads :
            (rpc[t] = "r_lookup" /\ rpc'[t] = "idle") => ipCache' = ipCache]_vars

\* one call was cancelled in flight and returned the cancellation error,
\* another returned a resolver error, and the host is not in the cache
C19_Witness ==
    \E t, u \in Callers :
        /\ rcall[t].done /\ rcall[t].err = "canceled"
        /\ rcall[u].done /\ rcall[u].err = "lookup"
        /\ rcall[t].host \notin DOMAIN ipCache

\* the host the layered Resolve works on: the host part of the address
LayeredHost(addr) == SplitHostPort(addr).host

\* C20: when the host mapper is there and answers with an address for the
\* host, the layered Resolve returns firstMappedIP:port and a nil error and
\* does not ask the resolver; the resolver is asked only if there is no host
\* mapper or it answered with no address.
C20_HostMapperFirst ==
    \A i \in 1..Len(lres) :
        /\ (/\ LayeredHost(lres[i].addr) # <<>>
            /\ lres[i].hosts.set
            /\ Len(lres[i].hosts.ips) > 0) =>
              /\ lres[i].out.ret = JoinHostPort(IPString(lres[i].hosts.ips[1]),
                                                SplitHostPort(lres[i].addr).port)
              /\ lres[i].out.err = "nil"
              /\ lres[i].out.mapper
              /\ ~lres[i].out.resolver
        /\ lres[i].out.resolver =>
              (~lres[i].hosts.set \/ Len(lres[i].hosts.ips) = 0)

\* a call made with a host mapper that answered with two addresses and a
\* resolver that had an answer of its own
C20_Witness ==
    \E i \in 1..Len(lres) :
        /\ lres[i].hosts.set /\ Len(lres[i].hosts.ips) = 2
        /\ lres[i].r.set /\ Len(lres[i].r.ips) > 0
        /\ lres[i].out.mapper
        /\ lres[i].out.ret = <<"2", ".", "2", ".", "2", ".", "2", ":", "5", "3">>

\* C21: when the resolver asked by the layered Resolve answers with
\* resolver.ErrInvalid, Resolve returns the address it was given and a nil
\* error.
C21_InvalidPassesThrough ==
    \A i \in 1..Len(lres) :
        (lres[i].out.resolver /\ lres[i].r.err = "invalid") =>
            (lres[i].out.ret = lres[i].addr /\ lres[i].out.err = "nil")

\* the resolver was asked about a host and answered ErrInvalid together with
\* an address
C21_Witness ==
    \E i \in 1..Len(lres) :
        /\ lres[i].out.resolver
        /\ lres[i].r.err = "invalid"
        /\ Len(lres[i].r.ips) > 0
        /\ lres[i].addr = HostAddr
        /\ lres[i].out.ret = HostAddr

\* C22: when the resolver asked by the layered Resolve answers with an error
\* other than resolver.ErrInvalid, or with no address, Resolve returns an
\* error and the empty address, never the address it was given or a resolved
\* one.
C22_ResolverFailureIsError ==
    \A i \in 1..Len(lres) :
        (/\ lres[i].out.resolver
         /\ \/ lres[i].r.err = "fail"
            \/ (lres[i].r.err = "nil" /\ Len(lres[i].r.ips) = 0)) =>
            (lres[i].out.err # "nil" /\ lres[i].out.ret = <<>>)

\* C23: resolve and the layered Resolve return an address that is empty or
\* does not split into host and port as it is, with a nil error, and ask
\* neither the cache nor the host mapper nor a resolver; the layered Resolve
\* also returns the address as it is, with a nil error, when there is no
\* resolver and the host mapper is absent or knows no address.
C23_PassThrough ==
    /\ \A t \in Threads :
          (rcall[t].op = "resolve" /\ ~rcall[t].split) =>
              /\ rcall[t].done
              /\ rcall[t].ret = rcall[t].addr
              /\ rcall[t].err = "nil"
              /\ ~rcall[t].loaded
              /\ ~rcall[t].evicted
              /\ rcall[t].lookups = 0
              /\ ~rcall[t].stored
    /\ \A i \in 1..Len(lres) :
          /\ ~SplitHostPort(lres[i].addr).ok =>
                /\ lres[i].out.ret = lres[i].addr
                /\ lres[i].out.err = "nil"
                /\ ~lres[i].out.mapper
                /\ ~lres[i].out.resolver
          /\ (~lres[i].r.set /\ (~lres[i].hosts.set \/ Len(lres[i].hosts.ips) = 0)) =>
                /\ lres[i].out.ret = lres[i].addr
                /\ lres[i].out.err = "nil"

\* with an address in the cache, resolve has passed an address without a port
\* through, and the layered Resolve has passed one through though its host
\* mapper and resolver had answers
C23_Witness ==
    /\ DOMAIN ipCache # {}
    /\ \E t \in Threads :
          /\ rcall[t].op = "resolve"
          /\ rcall[t].addr = IPNoPort
          /\ rcall[t].done
    /\ \E i \in 1..Len(lres) :
          /\ lres[i].addr = IPNoPort
          /\ lres[i].hosts.set /\ Len(lres[i].hosts.ips) > 0
          /\ lres[i].r.set
          /\ lres[i].out.ret = IPNoPort

\* the session that Set last put under the key in the calls of log with no
\* Del of the key after it, else the zero session
RECURSIVE LastSet(_, _)
LastSet(log, key) ==
    IF log = <<>> THEN EmptySession
    ELSE LET e == log[Len(log)]
         IN  IF e.key = key /\ e.op = "Set" THEN e.session
             ELSE IF e.key = key /\ e.op = "Del" THEN EmptySession
             ELSE LastSet(SubSeq(log, 1, Len(log) - 1), key)

\* C24: after any sequence of Set, Get and Del, Get(id) returns the session
\* of the last Set(id, s) with no Del(id) after it, else the zero session;
\* Set, Get and Del return a nil error every time.
C24_GetReturnsLastSet ==
    /\ \A i \in 1..Len(slog) :
          /\ slog[i].err = "nil"
          /\ slog[i].op = "Get" =>
                slog[i].ret = LastSet(SubSeq(slog, 1, i - 1), slog[i].key)
    /\ \A k \in Keys : MapLoad(sessionStore, KeyString(k)).v = LastSet(slog, k)

\* a key was set twice with two sessions and Get returned the second
C24_Witness ==
    /\ Len(slog) = 3
    /\ slog[1].op = "Set" /\ slog[2].op = "Set" /\ slog[3].op = "Get"
    /\ slog[1].key = slog[3].key /\ slog[2].key = slog[3].key
    /\ slog[1].session # slog[2].session
    /\ slog[3].ret = slog[2].session

\* the keys that have a pair in the store
StoredKeys(m) == {p[1] : p \in m}

\* C25: with Set, Get and Del running side by side the store is an atomic
\* map: a key has at most one entry, Get(id) returns the zero session or a
\* session that a Set stored under that id, and a call on one id leaves the
\* entries of the other ids as they are.
C25_AtomicMap ==
    /\ [](/\ \A p \in sessionStore, q \in sessionStore : p[1] = q[1] => p = q
          /\ \A i \in 1..Len(slog) :
                slog[i].op = "Get" =>
                    \/ slog[i].ret = EmptySession
                    \/ \E j \in 1..(i - 1) :
                          /\ slog[j].op = "Set"
                          /\ slog[j].key = slog[i].key
                          /\ slog[j].session = slog[i].ret)
    /\ [][Len(slog') = Len(slog) + 1 =>
            \A k \in Keys :
                k # slog'[Len(slog')].key =>
                    MapLoad(sessionStore', KeyString(k)) = MapLoad(sessionStore, KeyString(k))]_vars

\* a Get has returned the session stored under a key while another goroutine
\* has a Set or a Del of that key in progress
C25_Witness ==
    \E i \in 1..Len(slog), u \in Threads :
        /\ slog[i].op = "Get"
        /\ slog[i].ret # EmptySession
        /\ u # slog[i].t
        /\ scall[u].op \in {"Set", "Del"}
        /\ scall[u].key = slog[i].key
        /\ StoredKeys(sessionStore) = {KeyString(slog[i].key)}

\* the reporter of the last registration of the guid in log that named a guid
\* and a reporter and has no unregistration of the guid after it, else nil
RECURSIVE LastRegistered(_, _)
LastRegistered(log, guid) ==
    IF log = <<>> THEN NilReporter
    ELSE LET e == log[Len(log)]
         IN  IF /\ e.op = "register" /\ e.guid = guid
                /\ guid # "" /\ e.reporter # NilReporter
             THEN e.reporter
             ELSE IF e.op = "unregister" /\ e.guid = guid /\ guid # ""
             THEN NilReporter
             ELSE LastRegistered(SubSeq(log, 1, Len(log) - 1), guid)

\* C26: after any sequence of register and unregister calls,
\* getStatsReporter(guid) returns the reporter of the last
\* RegisterStatsReporter(guid, r) with r not nil that has no
\* UnregisterStatsReporter(guid) after it, else nil; for the empty guid it
\* returns nil.
C26_LookupReturnsLastRegistered ==
    \A i \in 1..Len(stlog) :
        stlog[i].op = "get" =>
            /\ stlog[i].guid = "" => stlog[i].reporter = NilReporter
            /\ stlog[i].reporter = LastRegistered(SubSeq(stlog, 1, i - 1), stlog[i].guid)

\* a guid was registered with one reporter, then with another, and the
\* lookup returned the second
C26_Witness ==
    /\ Len(stlog) = 3
    /\ stlog[1].op = "register" /\ stlog[2].op = "register" /\ stlog[3].op = "get"
    /\ stlog[1].guid = "g" /\ stlog[2].guid = "g" /\ stlog[3].guid = "g"
    /\ stlog[1].reporter = "M1"
    /\ stlog[2].reporter = "M2"
    /\ stlog[3].reporter = "M2"

\* a call that the registry ignores: a registration with the empty guid or a
\* nil reporter, an unregistration of the empty guid
Ignored(e) ==
    \/ e.op = "register" /\ (e.guid = "" \/ e.reporter = NilReporter)
    \/ e.op = "unregister" /\ e.guid = ""

\* C27: RegisterStatsReporter with an empty guid or a nil reporter, and
\* UnregisterStatsReporter with an empty guid, leave the registry as it is:
\* no entry is added, removed or replaced.
C27_IgnoredCallsChangeNothing ==
    /\ [][(Len(stlog') > Len(stlog) /\ Ignored(stlog'[Len(stlog')])) =>
              statsReporters' = statsReporters]_vars
    /\ [](\A g \in DOMAIN statsReporters : g # "" /\ statsReporters[g] # NilReporter)

\* a guid has a reporter, then nil was registered for it and the empty guid
\* was unregistered, and the guid still has its reporter
C27_Witness ==
    /\ Len(stlog) = 3
    /\ stlog[1].op = "register" /\ stlog[1].guid = "g" /\ stlog[1].reporter = "M1"
    /\ stlog[2].op = "register" /\ stlog[2].guid = "g" /\ stlog[2].reporter = NilReporter
    /\ stlog[3].op = "unregister" /\ stlog[3].guid = ""
    /\ DOMAIN statsReporters = {"g"}
    /\ statsReporters["g"] = "M1"

DispatchOps == {"dispatchOnPacket", "dispatchOnConnectionStart", "dispatchOnConnectionEnd"}

\* the arguments of the dispatches of kind op in the log that invoked the
\* reporter id, in the order of the log, one per invocation
RECURSIVE Invoked(_, _, _)
Invoked(log, op, id) ==
    IF log = <<>> THEN <<>>
    ELSE LET e == log[Len(log)]
             n == IF e.op = op /\ e.reporter = id THEN e.cb ELSE 0
         IN  Invoked(SubSeq(log, 1, Len(log) - 1), op, id) \o [k \in 1..n |-> e.args]

\* C28: a dispatch made while one reporter stays registered for the guid
\* invokes the matching callback of that reporter once, with the arguments of
\* the dispatch, also when dispatches run side by side, so that what the
\* reporter has recorded is what was dispatched to it; a dispatch for a guid
\* that has no reporter invokes nothing.
C28_DispatchInvokesOnce ==
    /\ \A i \in 1..Len(stlog) :
          (stlog[i].op \in DispatchOps /\ stlog[i].steady) =>
              IF stlog[i].seen = NilReporter
              THEN stlog[i].cb = 0 /\ stlog[i].reporter = NilReporter
              ELSE stlog[i].cb = 1 /\ stlog[i].reporter = stlog[i].seen
    /\ \A id \in MockReporters :
          /\ reporters[id].packets = Invoked(stlog, "dispatchOnPacket", id)
          /\ reporters[id].connectionsStart = Invoked(stlog, "dispatchOnConnectionStart", id)
          /\ reporters[id].connectionsEnd = Invoked(stlog, "dispatchOnConnectionEnd", id)

\* with the reporter registered all along, an rx and a tx packet, dispatched
\* at the same time, have both reached it
C28_Witness ==
    /\ Len(stlog) = 5
    /\ stlog[1].op = "register"
    /\ stlog[2].inner /\ stlog[3].inner
    /\ stlog[4].op = "dispatchOnPacket" /\ stlog[5].op = "dispatchOnPacket"
    /\ stlog[4].steady /\ stlog[5].steady
    /\ stlog[4].args.direction # stlog[5].args.direction
    /\ Len(reporters["M1"].packets) = 2

\* C29: register, lookup, dispatch and unregister calls on one guid, in any
\* interleaving, are safe: the registry map is written only by the one
\* goroutine that holds the lock and read only by goroutines that hold it
\* shared with no writer, no call is stuck for good, no callback is made on
\* nil, and a lookup returns nil or a reporter registered for the guid.
C29_RegistryLockDiscipline ==
    /\ \A t \in Threads :
          /\ stpc[t] \in {"write", "unlock"} =>
                (statsReportersMu.w = t /\ statsReportersMu.r = {})
          /\ stpc[t] \in {"read", "runlock"} =>
                (t \in statsReportersMu.r /\ statsReportersMu.w = 0)
          /\ stpc[t] = "callback" => stcall[t].reporter # NilReporter
    /\ (\E t \in Threads : stpc[t] # "idle") =>
          \E t \in Threads :
              \/ stpc[t] \in {"write", "unlock", "read", "runlock", "callback"}
              \/ stpc[t] = "rlock" /\ statsReportersMu.w = 0
              \/ stpc[t] = "lock" /\ statsReportersMu.w = 0 /\ statsReportersMu.r = {}
    /\ \A i \in 1..Len(stlog) :
          stlog[i].op = "get" =>
              \/ stlog[i].reporter = NilReporter
              \/ \E j \in 1..(i - 1) :
                    /\ stlog[j].op = "register"
                    /\ stlog[j].guid = stlog[i].guid
                    /\ stlog[j].reporter = stlog[i].reporter

\* a lookup holds the lock shared and has read the registered reporter while
\* an unregistration of the guid waits for the lock
C29_Witness ==
    \E t \in Threads, u \in Threads :
        /\ stpc[t] = "runlock"
        /\ stcall[t].reporter # NilReporter
        /\ stpc[u] = "lock"
        /\ stcall[u].op = "unregister"
        /\ stcall[u].guid = stcall[t].guid

\* the sizes, added up, of the packets of one direction that the log shows as
\* dispatched from src to dst and handed to a reporter
RECURSIVE DispatchedBytes(_, _, _, _)
DispatchedBytes(log, direction, src, dst) ==
    IF log = <<>> THEN 0
    ELSE LET e == log[Len(log)]
             n == IF /\ e.op = "dispatchOnPacket" /\ e.cb = 1
                     /\ e.args.direction = direction
                     /\ e.args.srcAddr = src /\ e.args.dstAddr = dst
                  THEN e.args.byteSize ELSE 0
         IN  DispatchedBytes(SubSeq(log, 1, Len(log) - 1), direction, src, dst) + n

\* the connection was started with the realistic reporter registered, no
\* packet was dispatched before that and the connection has not ended
Metering ==
    /\ \E i \in 1..Len(stlog) :
          /\ stlog[i].op = "dispatchOnConnectionStart"
          /\ stlog[i].cb = 1
          /\ \A j \in 1..(i - 1) : stlog[j].op # "dispatchOnPacket"
    /\ \A i \in 1..Len(stlog) : stlog[i].op # "dispatchOnConnectionEnd"

\* C30: with the realistic reporter registered, after OnConnectionStart(src,
\* dst), rx packets dispatched as src -> dst and tx packets dispatched as
\* dst -> src, the meter of normalizeConnID(src, dst, protocol) holds the sum
\* of the rx sizes as rxBytes and the sum of the tx sizes as txBytes.
C30_MeterHoldsBothDirections ==
    Metering =>
        LET meters == reporters[RealisticReporter].meters
            connID == normalizeConnID(SrcAddr, DstAddr, "udp")
        IN  /\ connID \in DOMAIN meters
            /\ meters[connID].rxBytes = DispatchedBytes(stlog, "rx", SrcAddr, DstAddr)
            /\ meters[connID].txBytes = DispatchedBytes(stlog, "tx", DstAddr, SrcAddr)

\* the connection a logged dispatch belongs to: a tx packet is dispatched
\* with the two ends swapped
ConnOf(e) ==
    IF e.op = "dispatchOnPacket" /\ e.args.direction = "tx"
    THEN <<e.args.dstAddr, e.args.srcAddr>>
    ELSE <<e.args.srcAddr, e.args.dstAddr>>

\* the connections that the log shows as started and not ended
RECURSIVE OpenConns(_)
OpenConns(log) ==
    IF log = <<>> THEN {}
    ELSE LET e    == log[Len(log)]
             open == OpenConns(SubSeq(log, 1, Len(log) - 1))
         IN  IF e.op = "dispatchOnConnectionStart" THEN open \cup {ConnOf(e)}
             ELSE IF e.op = "dispatchOnConnectionEnd" THEN open \ {ConnOf(e)}
             ELSE open

\* every dispatch in the log reached the reporter, a connection is started
\* while it is not open, and packets and ends are for open connections
RECURSIVE Lifecycle(_)
Lifecycle(log) ==
    IF log = <<>> THEN TRUE
    ELSE LET e    == log[Len(log)]
             rest == SubSeq(log, 1, Len(log) - 1)
         IN  /\ Lifecycle(rest)
             /\ e.op \in DispatchOps =>
                   /\ e.cb = 1
                   /\ IF e.op = "dispatchOnConnectionStart"
                      THEN ConnOf(e) \notin OpenConns(rest)
                      ELSE ConnOf(e) \in OpenConns(rest)

\* C31: with the realistic reporter, after k connections were started and rx
\* traffic was dispatched as src -> dst and tx traffic as dst -> src, the
\* reporter holds k meters, and once OnConnectionEnd(src, dst) was
\* dispatched for each of them it holds none.
C31_OneMeterPerOpenConnection ==
    Lifecycle(stlog) =>
        Cardinality(DOMAIN reporters[RealisticReporter].meters)
            = Cardinality(OpenConns(stlog))

\* a step in which a call returned at once: the call count grew and every
\* goroutine stands where it stood
NoopCall == hist'.calls = hist.calls + 1 /\ pc' = pc

\* C33: StartKeepalive with an interval of 0 or less does nothing: the step of
\* such a call leaves the Once, the stop channel and the loops as they were,
\* as long as no call had a positive interval the Once is fresh, no stop
\* channel exists and no loop runs, and the Once body is only ever run by a
\* call with a positive interval, so that such a call still starts the loop.
C33_NoIntervalNoEffect ==
    /\ [][NoopCall => UNCHANGED <<kaOnce, kaStop, loops, mu, connClosed, wire>>]_vars
    /\ [](hist.skAsked = {} => kaOnce = "fresh" /\ kaStop = "nil" /\ loops = <<>>)
    /\ [](kaOnce # "fresh" => hist.onceInterval > 0)
    /\ [](\A i \in 1..Len(loops) : loops[i].interval > 0)

\* two calls were made and returned, none of them Close: one had no positive
\* interval, and the other started the loop
C33_Witness ==
    /\ hist.calls = 2
    /\ hist.skReturned = 1
    /\ hist.closeRets = <<>>
    /\ \A t \in Threads : pc[t] = "idle"
    /\ kaOnce = "done"
    /\ Len(loops) = 1

\* C37: a WriteTo that has returned reports n = len(payload) when its
\* destination parsed and n = 0 when it did not (for a non-empty payload, n =
\* len(payload) exactly when the destination parsed); a write that failed on
\* the stream reports len(payload) whatever part of the frame went out.
C37_CountIsLenOrZero ==
    \A i \in LogIds :
        LET e == hist.log[i]
        IN  (~IsTick(e) /\ e.id \in hist.returned) =>
               /\ e.status \in {"ok", "closed", "parse"}
               /\ e.status = "parse" <=> ~Parsed[e.addr].ok
               /\ e.n = IF Parsed[e.addr].ok THEN Len(e.payload) ELSE 0
               /\ e.payload # <<>> => (e.n = Len(e.payload) <=> Parsed[e.addr].ok)
               /\ e.status = "closed" => e.n = Len(e.payload)

\* a WriteTo of one octet has returned whose header reached the stream and
\* whose payload did not, the stream closed in between
C37_Witness ==
    \E i \in LogIds :
        /\ hist.log[i].id \in hist.returned
        /\ hist.log[i].status = "closed"
        /\ hist.log[i].sent = HeaderLen
        /\ hist.log[i].payload # <<>>
        /\ hist.log[i].n = Len(hist.log[i].payload)

\* C38: the length field of a datagram writeToLocked built equals the number
\* of payload octets that follow its header, whatever the payload's length.
C38_LengthFieldCountsPayload ==
    dgram # NoDatagram => dgram.rsv = dgram.following /\ dgram.following = dgram.len

\* an UnregisterStatsReporter(guid) has deleted the entry and not yet returned
Unregistering(guid) ==
    \E u \in Threads :
        stpc[u] = "unlock" /\ stcall[u].op = "unregister" /\ stcall[u].guid = guid

\* C36: a dispatch invokes a callback only on the reporter the registry holds
\* for its guid at that moment, or on one whose removal has not yet
\* returned: once UnregisterStatsReporter(guid) has returned, the reporter it
\* removed gets no callback unless it is registered again.
C36_NoCallbackAfterUnregister ==
    [][\A t \in Threads :
          (stpc[t] = "callback" /\ stpc'[t] = "idle") =>
              \/ MapGet(statsReporters, stcall[t].guid) = stcall[t].reporter
              \/ Unregistering(stcall[t].guid)]_vars

\* C39: an entry leaves the cache only while it is expired: whatever step
\* removes the entry of a host, the entry it removes has reached its expiry.
C39_OnlyExpiredEntriesRemoved ==
    [][\A h \in DOMAIN ipCache :
          h \notin DOMAIN ipCache' => now >= ipCache[h].expiresAt]_vars

\* the goroutine whose step stored the entry of host h: its call looked h up,
\* got a non-empty answer without error, and returns having stored the
\* answer's first address with expiry now + TTL
StoredBy(t, h) ==
    /\ rpc[t] = "r_store" /\ rpc'[t] = "idle"
    /\ rcall'[t].host = h
    /\ rcall'[t].lookups = 1
    /\ rcall'[t].err = "nil"
    /\ Len(rcall'[t].ips) > 0
    /\ ipCache'[h] = [ip |-> IPString(rcall'[t].ips[1]), expiresAt |-> now + TTL]

\* C40: the address cache holds entries only under host names that came out
\* of an address that splits and that are no literal IP, one entry per host
\* name; every entry holds the address and time of the host's last store
\* with expiry = store time + TTL; an entry appears or changes only in the
\* step of a call whose lookup of that host answered without error and with
\* at least one address, and then holds the first of them; a call whose
\* lookup failed or answered with nothing leaves the cache as it is.
C40_CacheInvariant ==
    /\ [](\A h \in DOMAIN ipCache :
            /\ ParseIP(h) = <<>>
            /\ \E a \in InvariantAddrs : SplitHostPort(a).ok /\ SplitHostPort(a).host = h
            /\ \A a \in InvariantAddrs : ~SplitHostPort(a).ok => h # a
            /\ h \in DOMAIN rhist.lastStore
            /\ ipCache[h] = [ip |-> rhist.lastStore[h].ip,
                             expiresAt |-> rhist.lastStore[h].at + TTL])
    /\ [](Cardinality(DOMAIN ipCache)
             <= Cardinality({SplitHostPort(a).host : a \in InvariantAddrs}))
    /\ [][\A h \in DOMAIN ipCache' :
            (h \notin DOMAIN ipCache \/ ipCache'[h] # ipCache[h]) =>
                \E t \in Threads : StoredBy(t, h)]_vars
    /\ [][\A t \in Threads :
            (rpc[t] = "r_lookup" /\ rpc'[t] = "idle") => ipCache' = ipCache]_vars

\* a call stored the first of two addresses under its host name, and another
\* call whose lookup failed or answered with nothing has returned with that
\* entry still in the cache
C40_Witness ==
    \E t, u \in Callers :
        /\ rcall[t].done /\ rcall[t].stored /\ Len(rcall[t].ips) = 2
        /\ rcall[t].host \in DOMAIN ipCache
        /\ ipCache[rcall[t].host] = rcall[t].storedEntry
        /\ rcall[u].done /\ rcall[u].lookups = 1
        /\ rcall[u].err \in {"lookup", "nosuchhost"}
        /\ rcall[u].host = rcall[t].host
        /\ rcall[u].retAt >= rcall[t].storeAt

\* the id of the one connection the packets belong to
PacketConn == normalizeConnID(SrcAddr, DstAddr, "udp")

\* C32: whatever way concurrent OnPacket calls for one connection that was
\* never started interleave, at most one meter is ever created, the calls
\* that went past getOrCreateMeter all hold it, it is the meter the map holds
\* for the connection, and it has counted the bytes of every call that
\* returned, per direction.
C32_OneMeterCountsAll ==
    /\ Len(meterObjs) <= 1
    /\ DOMAIN metersMap \subseteq {PacketConn}
    /\ \A t \in Threads : mpc[t] \in {"m_unlock", "m_add"} => mcall[t].meter = 1
    /\ mhist.returned > 0 =>
          /\ Len(meterObjs) = 1
          /\ DOMAIN metersMap = {PacketConn}
          /\ metersMap[PacketConn] = 1
          /\ meterObjs[1].connID = PacketConn
          /\ meterObjs[1].rxBytes = mhist.rx
          /\ meterObjs[1].txBytes = mhist.tx
          /\ mhist.rx + mhist.tx = 100 * mhist.returned

\* two calls both missed the meter on the fast path and went on to the write
\* lock, and every call made has returned
C32_Witness ==
    /\ mhist.slow = 2
    /\ mhist.calls = mhist.returned
    /\ mhist.returned >= 2
    /\ Len(meterObjs) = 1
    /\ meterObjs[1].rxBytes + meterObjs[1].txBytes = 100 * mhist.returned

\* Close has been called: a call is in progress or has returned
CloseCalled == hist.closeRets # <<>> \/ \E t \in Threads : InClose(t)

\* a keepalive loop is running
LoopRunning == \E i \in LoopIds : loops[i].pc # "done"

\* C34: whenever Close has been called and a keepalive loop is running,
\* whether it was started before, during or after the Close, the loop ends
\* (or the process has panicked and is gone with its goroutines).
C34_LoopEndsAfterClose == (CloseCalled /\ LoopRunning) ~> (panicked \/ ~LoopRunning)

\* a loop that StartKeepalive started after a Close had returned has ended
C34_Witness ==
    /\ ~panicked
    /\ \E i \in LoopIds : loops[i].afterClose /\ loops[i].pc = "done"

\* goroutine t is in a WriteTo or Write call
InWrite(t) == pc[t] \in {"w_lock", "w_hdr", "w_data", "w_unlock"}

\* loop i is in its keepalive write
InKaWrite(i) == loops[i].pc \in {"k_lock", "k_hdr", "k_data", "k_unlock"}

\* C35: a Close in progress can always take its next step whoever holds the
\* write lock, and returns, having closed the stream, even if the writes in
\* progress never move on an open stream; once the stream is closed every
\* write in progress, the keepalive's too, comes to its end with the lock
\* released, and an application write that still had octets to put on the
\* stream ends with the error.
C35_CloseNeverWaits ==
    /\ [](\A t \in Threads : (InClose(t) /\ ~panicked) => ENABLED CloseSteps)
    /\ \A t \in Threads : InClose(t) ~> (pc[t] = "idle" \/ panicked)
    /\ [](hist.closeRets # <<>> => connClosed)
    /\ \A t \in Threads : (connClosed /\ InWrite(t)) ~> (pc[t] = "idle" \/ panicked)
    /\ (connClosed /\ \E i \in LoopIds : InKaWrite(i)) ~> (panicked \/ \A i \in LoopIds : ~InKaWrite(i))
    /\ [][\A t \in Threads :
            (connClosed /\ pc[t] \in {"w_hdr", "w_data"} /\ pc'[t] # pc[t]) =>
                hist'.log[arg[t].li].status = "closed"]_vars
    /\ []((\A t \in Threads : pc[t] = "idle") /\ (\A i \in LoopIds : ~InKaWrite(i)) => mu = 0)

\* a WriteTo holds the lock with its header on the stream and its payload to
\* come, and a Close called meanwhile has returned with the stream closed
C35_Witness ==
    /\ ~panicked
    /\ connClosed
    /\ hist.closeRets # <<>>
    /\ \E t \in Threads : pc[t] = "w_data" /\ mu = t

====
